---- MODULE Spec2Model ----
(***************************************************************************)
(* SwiftLog: the run lifecycle and log-delivery plane.                     *)
(*                                                                         *)
(* The ingestion handler (Service.StreamLog), the log_runs table as it is  *)
(* written by LogRunRepository, the Loki client, the Redis task queue and  *)
(* the AI worker loop, each translated from its source.                    *)
(***************************************************************************)
EXTENDS Integers, Sequences, FiniteSets, TLC

(***************************************************************************)
(* Bounds of the model.                                                    *)
(***************************************************************************)
\* Line frames a client sends on one stream.
MaxLines == 2
\* Service.batchSize as configured for the model (Config.BatchSize).
BatchSize == 2

\* Capacity of a client's send channel in the model.
SendCap == 1
\* Messages the hub receives from the swiftlog:logs channel.
MaxPublished == 3

\* Tokens CreateToken stores over a run of the token service.
MaxLogs == 4
\* Largest maxLines a prepareLogs call is made with.
MaxTruncate == 3
\* Largest number of tasks enqueued.
MaxEnqueued == 3
\* Largest number of lines the wrapped command writes.
MaxWrites == 2
MaxTokens == 3

(***************************************************************************)
(* Program constants.                                                      *)
(***************************************************************************)
\* CONSTRAINT exit_code_range of log_runs.
ExitCodeMin == 0 - 128
ExitCodeMax == 255
\* limit=10000 of the query_range request.
QueryLimit == 10000

\* make(chan *BroadcastMessage, 256)
BroadcastCap == 256

NULL == "NULL"

\* sql.NullInt32, and a nil or non-nil *int32.
NullInt32 == [Valid |-> FALSE, Int32 |-> 0]
Int32(c) == [Valid |-> TRUE, Int32 |-> c]

\* One ingestion stream: streams share no state but the task queue.
Streams == {"s1"}
Users == {"u1", "u2"}
Levels == {"STDOUT", "STDERR"}
Contents == {"a"}
\* Client-supplied wall-clock timestamps.
Timestamps == {1, 2}
\* Exit codes a Completion frame (int32) carries: both sides of each edge of
\* the exit_code_range CHECK, zero and a non-zero code in range.
ExitCodes == {ExitCodeMin - 1, 0, 2, ExitCodeMax + 1}

\* models.RunStatus
RunStatusRunning == "running"
RunStatusCompleted == "completed"
RunStatusFailed == "failed"
RunStatusAborted == "aborted"

\* models.AIStatus
AIStatusNone == "none"
AIStatusPending == "pending"
AIStatusProcessing == "processing"
AIStatusCompleted == "completed"
AIStatusFailed == "failed"

VARIABLES
    pc,         \* per stream: position of the StreamLog handler
    exitPath,   \* per stream: the return statement the handler left by
    userID,     \* per stream: the authenticated user of the stream context
    ctxDone,    \* per stream: stream.Context() is cancelled
    logRun,     \* per stream: the *models.LogRun that Create returned
    warned,     \* per stream: "failed to publish AI task" was logged
    logBatch,   \* per stream: the logBatch slice
    recvd,      \* per stream: the Line frames Recv has returned, in order
    completion, \* per stream: exit code of the Completion frame received
    tick,       \* per stream: batchTicker.C holds a tick
    inRecv,     \* per stream: the handler is inside stream.Recv()
    runs,       \* table log_runs: run id -> row
    loki,       \* LogStore: run id -> the values pushed, in push order
    queue,      \* Redis list swiftlog:ai:queue, head first
    taskLog,    \* every task LPUSHed, in order
    wpc,        \* worker: position in Worker.Run / processRunByID / processRun
    wtask,      \* worker: the task being processed
    werr,       \* worker: the error processRunByID returns ("" for nil)
    wctxDone,   \* worker: the root context is cancelled
    results,    \* messages published on swiftlog:ai:notify, in order
    finished,   \* run ids of the tasks the worker is done with
    modelCalls, \* the calls of the external model: run and what was read for it
    wblocked,   \* ctx was cancelled while the worker was blocked in BRPOP on an empty list
    authorization,     \* per stream: values of the "authorization" metadata key
    firstFrame,        \* per stream: the frame the first Recv returned
    effectiveSettings, \* per stream: what GetEffectiveSettings returned
    extraMetadata,     \* per stream: a Metadata frame was received in the loop
    projects,   \* table projects: rows [id, user_id, name]
    log_groups, \* table log_groups: rows [id, project_id, name]
    api_tokens, \* table api_tokens: rows [id, user_id, token_hash]
    issued,     \* the raw tokens CreateToken returned: [id, user_id, raw]
    authResult, \* what the last authenticateRequest returned
    conn,       \* per WebSocket client: the request and how it was answered
    clients,    \* Hub.clients: run id -> the registered clients
    send,       \* per client: the messages buffered in client.send
    closed,     \* per client: client.send is closed
    closes,     \* per client: how often the hub has closed client.send
    arrivals,   \* the payloads subscribeToRedis has handed to Broadcast, in order
    broadcast,  \* Hub.broadcast: the buffered BroadcastMessages
    received,   \* per client: the messages written to its connection
    published,  \* number of messages received from swiftlog:logs
    authInput,  \* the authorization values of the last authenticateRequest
    userSettings,    \* the row of user_settings of the user, if any
    projectSettings, \* the row of project_settings of the project, if any
    resolved,        \* what GetEffectiveSettings returned for them
    settingsPc,      \* "call" before GetEffectiveSettings, "returned" after
    gpc,        \* per caller: position in the two GetOrCreate calls
    gargs,      \* per caller: the user and the names it calls them with
    gproject,   \* per caller: the project its first GetOrCreate returned
    gret,       \* per caller: the error or the group it ends with
    finalizeCall, \* the last UpdateStatus call: its arguments, the row, the error
    logsChannel, \* the messages PUBLISHed on the Redis channel swiftlog:logs
    prepareArgs, \* the arguments of a prepareLogs call: logs, maxLines, strategy
    prepared,   \* the lines of the string prepareLogs returned, if it returned
    delivered,  \* the tasks ConsumeAITask returned, in order, each with its worker
    cliPc,      \* CLI: position of the main goroutine of swiftlog run
    cmdExit,    \* CLI: the exit code of the wrapped command, once it has exited
    pipe,       \* CLI: per pipe, the lines the command wrote that were not read yet
    pipeClosed, \* CLI: per pipe, command.Wait() has closed the read end
    readerDone, \* CLI: per pipe, streamOutput has returned
    written,    \* CLI: per pipe, every line the command wrote, in order
    sentFrames, \* CLI: the frames sent on the stream after Metadata, in order
    sendWarned, \* CLI: "Warning: failed to send log line" was printed
    cliExit,    \* CLI: the exit code of the CLI process, once it has exited
    inSend,     \* CLI: per reader goroutine, the line whose stream.Send is executing
    marshalArgs, \* the Line frame whose stored entry is marshalled
    marshalled, \* what LogEntry.MarshalJSON wrote for it, once it has returned
    apiCall     \* REST API: the last request to a /runs/:id route and its answer

ivars == <<pc, exitPath, userID, ctxDone, logRun, warned, logBatch, recvd, completion,
          tick, inRecv>>
svars == <<runs, loki>>
qvars == <<queue, taskLog>>
wvars == <<wpc, wtask, werr, wctxDone, results, finished, modelCalls, wblocked>>
mvars == <<authorization, firstFrame, effectiveSettings, extraMetadata>>
pvars == <<projects, log_groups>>
tvars == <<api_tokens, issued, authResult, authInput>>
hvars == <<conn, clients, send, closed, broadcast, received, published, closes, arrivals>>
evars == <<userSettings, projectSettings, resolved, settingsPc>>
gvars == <<gpc, gargs, gproject, gret>>
fvars == <<finalizeCall>>
bvars == <<logsChannel>>
avars == <<prepareArgs, prepared>>
dvars == <<delivered>>
rvars == <<apiCall>>
jvars == <<marshalArgs, marshalled>>
cvars == <<cliPc, cmdExit, pipe, pipeClosed, readerDone, written, sentFrames, sendWarned,
          cliExit, inSend>>
\* What no step of the ingestor and of the worker changes.
yvars == <<tvars, hvars, evars, gvars, fvars, bvars, avars, dvars, cvars, rvars, jvars>>
xvars == <<mvars, pvars, yvars>>
vars == <<ivars, svars, qvars, wvars, xvars>>
\* What the steps of the WebSocket server, of the settings resolution, of
\* the token service and of the GetOrCreate callers leave alone.
hubRest == <<jvars, bvars, avars, dvars, cvars, rvars, ivars, svars, qvars, wvars, mvars, pvars, tvars, evars, gvars, fvars>>
settingsRest == <<jvars, bvars, avars, dvars, cvars, rvars, ivars, svars, qvars, wvars, mvars, pvars, tvars, hvars, gvars, fvars>>
tokenRest == <<jvars, bvars, avars, dvars, cvars, rvars, ivars, svars, qvars, wvars, mvars, pvars, hvars, evars, gvars, fvars>>
callersRest == <<jvars, bvars, avars, dvars, cvars, rvars, ivars, svars, qvars, wvars, mvars, tvars, hvars, evars, fvars>>
prepareRest == <<ivars, svars, qvars, wvars, mvars, pvars, tvars, hvars, evars, gvars,
                 fvars, bvars, dvars, cvars, rvars, jvars>>
cliRest == <<ivars, svars, qvars, wvars, mvars, pvars, tvars, hvars, evars, gvars,
             fvars, bvars, avars, dvars, rvars, jvars>>
apiRest == <<ivars, svars, qvars, wvars, mvars, pvars, tvars, hvars, evars, gvars,
             fvars, bvars, avars, dvars, cvars, jvars>>
queueRest == <<ivars, svars, wvars, mvars, pvars, tvars, hvars, evars, gvars, fvars,
               bvars, avars, cvars, rvars, jvars>>
finalizeRest == <<jvars, bvars, avars, dvars, cvars, rvars, ivars, loki, qvars, wvars, mvars, pvars, tvars, hvars, evars, gvars>>

(***************************************************************************)
(* Data access layer.                                                      *)
(***************************************************************************)
\* The run a stream creates: the row id is generated per INSERT, so it is
\* named after the one stream that inserted it.
RunIdOf(s) == s

\* LogRunRepository.Create: the INSERT binds models.AIStatusPending, whatever
\* initial AI status the caller computed.
Create(groupID, initialAIStatus) ==
    [group_id |-> groupID, status |-> RunStatusRunning, exit_code |-> NullInt32,
     end_time |-> NULL, ai_status |-> AIStatusPending, ai_report |-> NULL]

\* CONSTRAINT exit_code_range CHECK of log_runs.
ExitCodeRangeOK(exitCode) ==
    ~exitCode.Valid \/ (exitCode.Int32 >= ExitCodeMin /\ exitCode.Int32 <= ExitCodeMax)

UpdateStatusNoEndTime(row, status, exitCode) ==
    [row EXCEPT !.status = status, !.exit_code = exitCode]

\* LogRunRepository.UpdateStatus: the SET clause of the UPDATE.
UpdateStatus(row, status, exitCode) ==
    [row EXCEPT !.status = status, !.exit_code = exitCode, !.end_time = "SET"]

\* The table after UpdateStatus(ctx, id, status, exitCode) returned nil:
\* an UPDATE matching no row changes nothing.
RunsAfterUpdateStatus(id, status, exitCode) ==
    IF id \in DOMAIN runs
    THEN [runs EXCEPT ![id] = UpdateStatus(runs[id], status, exitCode)]
    ELSE runs

\* The statement fails, and the row keeps its values, when the context is
\* cancelled or the new row violates a CHECK; it may also fail transiently.
UpdateStatusCanSucceed(cancelled, exitCode) ==
    ~cancelled /\ ExitCodeRangeOK(exitCode)

\* Rows of projects and log_groups.  The id is generated by the INSERT; as
\* (user_id, name) and (project_id, name) are UNIQUE, it is named after the
\* pair.
ProjectRow(ownerID, name) ==
    [id |-> "project:" \o ownerID \o "/" \o name, user_id |-> ownerID, name |-> name]
GroupRow(parentID, name) ==
    [id |-> "group:" \o parentID \o "/" \o name, project_id |-> parentID,
     name |-> name]

\* ProjectRepository.GetByUserAndName and LogGroupRepository.GetByProjectAndName:
\* the rows the SELECT finds.
GetByUserAndName(table, ownerID, name) ==
    {row \in table : row.user_id = ownerID /\ row.name = name}
GetByProjectAndName(table, parentID, name) ==
    {row \in table : row.project_id = parentID /\ row.name = name}

\* The tables after a GetOrCreate that ran alone and returned nil error:
\* the row is inserted when the SELECT found none.
ProjectsAfterGetOrCreate(table, ownerID, name) ==
    IF GetByUserAndName(table, ownerID, name) # {} THEN table
    ELSE table \cup {ProjectRow(ownerID, name)}
GroupsAfterGetOrCreate(table, parentID, name) ==
    IF GetByProjectAndName(table, parentID, name) # {} THEN table
    ELSE table \cup {GroupRow(parentID, name)}

\* Callers of projectRepo.GetOrCreate and groupRepo.GetOrCreate that run
\* at the same time, as the handlers of two streams do.
Callers == {"k1", "k2"}
CallerArgs == [user_id : Users, project_name : {"default", "web"},
               group_name : {"default"}]
NoError == [err |-> FALSE, group |-> <<>>]

\* GetOrCreate of a project, first statement: the SELECT of GetByUserAndName.
ProjectGet(k) ==
    /\ gpc[k] = "project_get"
    /\ LET rows == GetByUserAndName(projects, gargs[k].user_id, gargs[k].project_name)
       IN  IF rows # {}
           THEN /\ gproject' = [gproject EXCEPT ![k] = <<CHOOSE row \in rows : TRUE>>]
                /\ gpc' = [gpc EXCEPT ![k] = "group_get"]
           ELSE /\ gpc' = [gpc EXCEPT ![k] = "project_create"]
                /\ UNCHANGED gproject
    /\ UNCHANGED <<gargs, gret, pvars>>
    /\ UNCHANGED callersRest

\* GetOrCreate of a project, second statement: the INSERT of Create, which
\* CONSTRAINT unique_user_project rejects when the pair is already there.
ProjectCreate(k) ==
    /\ gpc[k] = "project_create"
    /\ LET row == ProjectRow(gargs[k].user_id, gargs[k].project_name)
       IN  IF GetByUserAndName(projects, row.user_id, row.name) # {}
           THEN /\ gret' = [gret EXCEPT ![k] = [err |-> TRUE, group |-> <<>>]]
                /\ gpc' = [gpc EXCEPT ![k] = "done"]
                /\ UNCHANGED <<gproject, projects>>
           ELSE /\ projects' = projects \cup {row}
                /\ gproject' = [gproject EXCEPT ![k] = <<row>>]
                /\ gpc' = [gpc EXCEPT ![k] = "group_get"]
                /\ UNCHANGED gret
    /\ UNCHANGED <<gargs, log_groups>>
    /\ UNCHANGED callersRest

\* GetOrCreate of a group: the SELECT of GetByProjectAndName.
GroupGet(k) ==
    /\ gpc[k] = "group_get"
    /\ LET rows == GetByProjectAndName(log_groups, gproject[k][1].id,
                                       gargs[k].group_name)
       IN  IF rows # {}
           THEN /\ gret' = [gret EXCEPT ![k] =
                               [err |-> FALSE, group |-> <<CHOOSE row \in rows : TRUE>>]]
                /\ gpc' = [gpc EXCEPT ![k] = "done"]
           ELSE /\ gpc' = [gpc EXCEPT ![k] = "group_create"]
                /\ UNCHANGED gret
    /\ UNCHANGED <<gargs, gproject, pvars>>
    /\ UNCHANGED callersRest

\* GetOrCreate of a group: the INSERT of Create, which CONSTRAINT
\* unique_project_group rejects when the pair is already there.
GroupCreate(k) ==
    /\ gpc[k] = "group_create"
    /\ LET row == GroupRow(gproject[k][1].id, gargs[k].group_name)
       IN  IF GetByProjectAndName(log_groups, row.project_id, row.name) # {}
           THEN /\ gret' = [gret EXCEPT ![k] = [err |-> TRUE, group |-> <<>>]]
                /\ UNCHANGED log_groups
           ELSE /\ log_groups' = log_groups \cup {row}
                /\ gret' = [gret EXCEPT ![k] = [err |-> FALSE, group |-> <<row>>]]
    /\ gpc' = [gpc EXCEPT ![k] = "done"]
    /\ UNCHANGED <<gargs, gproject, projects>>
    /\ UNCHANGED callersRest

(***************************************************************************)
(* Loki client.                                                            *)
(***************************************************************************)
\* Client.PushLogs answered 2xx: the store holds the values of the request
\* after the ones it held, in the order of the request.
PushLogs(store, runID, entries) ==
    [store EXCEPT ![runID] = @ \o entries]

\* Insert entry e into the sequence q, sorted by timestamp, after the
\* entries of equal timestamp.
RECURSIVE InsertByTimestamp(_, _)
InsertByTimestamp(q, e) ==
    IF q = <<>> THEN <<e>>
    ELSE IF e.Timestamp < Head(q).Timestamp THEN <<e>> \o q
    ELSE <<Head(q)>> \o InsertByTimestamp(Tail(q), e)

RECURSIVE SortByTimestamp(_)
SortByTimestamp(q) ==
    IF q = <<>> THEN <<>>
    ELSE InsertByTimestamp(SortByTimestamp(SubSeq(q, 1, Len(q) - 1)), q[Len(q)])

\* Client.QueryLogs: query_range {run_id="..."} with direction=forward and
\* limit=10000: the stream's values, oldest timestamp first, at most limit.
QueryLogs(store, runID) ==
    LET sorted == SortByTimestamp(store[runID])
    IN  SubSeq(sorted, 1, IF Len(sorted) < QueryLimit THEN Len(sorted) ELSE QueryLimit)

\* The contents of the Line frames whose entry is marshalled: the empty
\* string, and one or two of these pieces in a row.
ContentPieces == {"a", " ", "[", "[STDOUT] ", "[STDERR] "}
MarshalContents ==
    {""} \cup ContentPieces \cup {p \o q : p \in ContentPieces, q \in ContentPieces}

\* LogEntry.MarshalJSON: the level and the content taken out of e.Line, as
\* the fields of the JSON object.  e.Line[1:9] is the 2nd to the 9th byte.
MarshalJSON(e) ==
    LET n == Len(e.Line)
        tag == SubSeq(e.Line, 2, 9)
        tagged(t) == n > 8 /\ SubSeq(e.Line, 1, 1) = "[" /\ n > 9 /\ tag = t
    IN  IF tagged("STDOUT] ")
        THEN [timestamp |-> e.Timestamp, level |-> "STDOUT",
              content |-> SubSeq(e.Line, 10, n)]
        ELSE IF tagged("STDERR] ")
        THEN [timestamp |-> e.Timestamp, level |-> "STDERR",
              content |-> SubSeq(e.Line, 10, n)]
        ELSE [timestamp |-> e.Timestamp, level |-> "STDOUT", content |-> e.Line]

(***************************************************************************)
(* Settings: SettingsRepository.                                           *)
(***************************************************************************)
\* A nil and a non-nil pointer of ProjectSettings (*bool, *int, *string).
NilBool == [Valid |-> FALSE, V |-> FALSE]
NilInt == [Valid |-> FALSE, V |-> 0]
NilString == [Valid |-> FALSE, V |-> ""]
Ptr(v) == [Valid |-> TRUE, V |-> v]

\* The ai_api_key a settings handler stores for the request's ai_api_key
\* (*string: nil when the JSON has none): the current column when the request
\* has none, NULL for the empty string, else the string.  UpdateUserSettings
\* starts from the stored key, UpdateProjectSettings from the zero value.
APIKeyColumnKeepsEmpty(current, reqKey) ==
    IF ~reqKey.Valid THEN current ELSE Ptr(reqKey.V)
APIKeyColumn(current, reqKey) ==
    IF ~reqKey.Valid THEN current
    ELSE IF reqKey.V = "" THEN NilString
    ELSE Ptr(reqKey.V)

\* The ai_api_key values of a request body.
APIKeyRequests(key) == {NilString, Ptr(""), Ptr(key)}

\* The ai_api_key columns the handlers leave in the two tables.
UserAPIKeys == {APIKeyColumn(NilString, k) : k \in APIKeyRequests("sk-user")}
ProjectAPIKeys == {APIKeyColumn(NilString, k) : k \in APIKeyRequests("sk-project")}

\* Rows of user_settings: the values CreateDefaultUserSettings inserts, with
\* both values of the two switches.  ai_max_concurrent is the column default.
\* ai_api_key is what UpdateUserSettings left.
UserSettingsRows ==
    [ai_enabled : BOOLEAN, ai_base_url : {"https://api.openai.com/v1"},
     ai_api_key : UserAPIKeys,
     ai_model : {"gpt-4o-mini"}, ai_max_tokens : {500},
     ai_auto_analyze : BOOLEAN, ai_max_log_lines : {1000},
     ai_log_truncate_strategy : {"tail"}, ai_system_prompt : {"prompt"},
     ai_max_concurrent : {3}]

\* Rows of project_settings: every column is nullable.
ProjectSettingsRows ==
    [ai_enabled : {NilBool, Ptr(FALSE)}, ai_base_url : {NilString},
     ai_api_key : ProjectAPIKeys,
     ai_model : {NilString, Ptr("gpt-4")}, ai_max_tokens : {NilInt},
     ai_auto_analyze : {NilBool, Ptr(TRUE)}, ai_max_log_lines : {NilInt, Ptr(200)},
     ai_log_truncate_strategy : {NilString}, ai_system_prompt : {NilString},
     ai_max_concurrent : {NilInt, Ptr(5)}]

\* The rows a table holds for one key: none or one.
Maybe(rows) == {<<>>} \cup {<<row>> : row \in rows}

\* GetUserSettings: the SELECT list has no ai_max_concurrent, so the field
\* of the struct keeps the zero value.
GetUserSettings(row) == [row EXCEPT !.ai_max_concurrent = 0]

\* GetProjectSettings: likewise, AIMaxConcurrent stays nil.
GetProjectSettings(row) == [row EXCEPT !.ai_max_concurrent = NilInt]

\* nullStringToString: the string of a NullString, "" when it is NULL.
nullStringToString(ns) == IF ns.Valid THEN ns.V ELSE ""

\* One field of the merge: the project's value when its pointer is not nil.
Override(userValue, projectValue) ==
    IF projectValue.Valid THEN projectValue.V ELSE userValue

OverlayFields ==
    {"ai_enabled", "ai_base_url", "ai_api_key", "ai_model", "ai_max_tokens",
     "ai_auto_analyze",
     "ai_max_log_lines", "ai_log_truncate_strategy", "ai_system_prompt"}

\* GetEffectiveSettings(ctx, projectID, userID), given the rows the two
\* tables hold for the user and the project: <<>> for (nil, err) when the
\* user has no row, else the merged settings.  AIMaxConcurrent is assigned
\* nowhere.
GetEffectiveSettings(userRow, projectRow) ==
    IF Len(userRow) = 0 THEN <<>>
    ELSE
        LET user == GetUserSettings(userRow[1])
            fromUser ==
                [AIEnabled |-> user.ai_enabled, AIBaseURL |-> user.ai_base_url,
                 AIAPIKey |-> nullStringToString(user.ai_api_key),
                 AIModel |-> user.ai_model, AIMaxTokens |-> user.ai_max_tokens,
                 AIAutoAnalyze |-> user.ai_auto_analyze,
                 AIMaxLogLines |-> user.ai_max_log_lines,
                 AILogTruncateStrategy |-> user.ai_log_truncate_strategy,
                 AISystemPrompt |-> user.ai_system_prompt,
                 AIMaxConcurrent |-> 0, Source |-> "user"]
        IN  IF Len(projectRow) = 0 THEN <<fromUser>>
            ELSE
                LET project == GetProjectSettings(projectRow[1])
                    hasOverrides == \E f \in OverlayFields : project[f].Valid
                IN  <<[AIEnabled |-> Override(user.ai_enabled, project.ai_enabled),
                       AIBaseURL |-> Override(user.ai_base_url, project.ai_base_url),
                       AIAPIKey |->
                           Override(nullStringToString(user.ai_api_key),
                                    project.ai_api_key),
                       AIModel |-> Override(user.ai_model, project.ai_model),
                       AIMaxTokens |-> Override(user.ai_max_tokens, project.ai_max_tokens),
                       AIAutoAnalyze |->
                           Override(user.ai_auto_analyze, project.ai_auto_analyze),
                       AIMaxLogLines |->
                           Override(user.ai_max_log_lines, project.ai_max_log_lines),
                       AILogTruncateStrategy |->
                           Override(user.ai_log_truncate_strategy,
                                    project.ai_log_truncate_strategy),
                       AISystemPrompt |->
                           Override(user.ai_system_prompt, project.ai_system_prompt),
                       AIMaxConcurrent |-> 0,
                       Source |-> IF hasOverrides THEN "merged" ELSE "user"]>>

\* A call of GetEffectiveSettings returns.
ResolveSettings ==
    /\ settingsPc = "call"
    /\ resolved' = GetEffectiveSettings(userSettings, projectSettings)
    /\ settingsPc' = "returned"
    /\ UNCHANGED <<userSettings, projectSettings>>
    /\ UNCHANGED settingsRest

(***************************************************************************)
(* Authentication: TokenService and the gRPC stream interceptor.           *)
(***************************************************************************)
\* uuid.Nil
NilUser == "nil"

\* Raw tokens GenerateToken can return: base64.URLEncoding of 32 random
\* bytes, TokenStringLength characters each.
TokenStringLength == 44
RawTokens ==
    {"QUFBQUFBQUFBQUFBQUFBQUFBQUFBQUFBQUFBQUFBQUE=",
     "QkJCQkJCQkJCQkJCQkJCQkJCQkJCQkJCQkJCQkJCQkI=",
     "Q0NDQ0NDQ0NDQ0NDQ0NDQ0NDQ0NDQ0NDQ0NDQ0NDQ0M="}

\* HashToken: the hex SHA-256 of the token, a function of the token that
\* keeps distinct tokens distinct.
HashToken(token) == "sha256(" \o token \o ")"

\* The (userID, err) pair that ValidateToken and authenticateRequest return.
AuthOK(id) == [ok |-> TRUE, userID |-> id]
AuthErr == [ok |-> FALSE, userID |-> NilUser]

ValidateTokenIgnoresNoRows(table, rawToken, dbOK) ==
    LET rows == {row \in table : row.token_hash = HashToken(rawToken)}
    IN  IF ~dbOK THEN AuthErr
        ELSE IF rows # {} THEN AuthOK((CHOOSE row \in rows : TRUE).user_id)
        ELSE AuthOK(NilUser)

\* TokenService.ValidateToken: the user of the row whose token_hash is the
\* hash of the raw token (token_hash is UNIQUE); an error when there is none
\* or when the query fails.
ValidateToken(table, rawToken, dbOK) ==
    LET rows == {row \in table : row.token_hash = HashToken(rawToken)}
    IN  IF dbOK /\ rows # {}
        THEN AuthOK((CHOOSE row \in rows : TRUE).user_id)
        ELSE AuthErr

ExtractTokenKeepsPrefix(token) == token

\* Support both "Bearer <token>" and plain token.
ExtractToken(token) ==
    IF Len(token) > 7 /\ SubSeq(token, 1, 7) = "Bearer "
    THEN SubSeq(token, 8, Len(token))
    ELSE token

\* authenticateRequest: tokens is md.Get("authorization").
authenticateRequest(tokens, table, dbOK) ==
    IF Len(tokens) = 0 THEN AuthErr
    ELSE IF tokens[1] = "" THEN AuthErr
    ELSE ValidateToken(table, ExtractToken(tokens[1]), dbOK)

\* TokenService.CreateToken: the INSERT stores the hash of a generated
\* token and the raw token is returned; it fails, and nothing is returned,
\* when the hash is already stored (token_hash is UNIQUE).
CreateToken(u) ==
    /\ Cardinality(issued) < MaxTokens
    /\ \E rawToken \in RawTokens :
        /\ Len(rawToken) = TokenStringLength
        /\ \A row \in api_tokens : row.token_hash # HashToken(rawToken)
        /\ LET id == "token:" \o ToString(Cardinality(issued) + 1)
           IN  /\ api_tokens' = api_tokens \cup
                      {[id |-> id, user_id |-> u, token_hash |-> HashToken(rawToken)]}
               /\ issued' = issued \cup {[id |-> id, user_id |-> u, raw |-> rawToken]}
    /\ UNCHANGED <<authResult, authInput>>
    /\ UNCHANGED tokenRest

\* TokenService.RevokeToken: DELETE FROM api_tokens WHERE id = $1.
RevokeToken ==
    /\ \E row \in api_tokens : api_tokens' = api_tokens \ {row}
    /\ UNCHANGED <<issued, authResult, authInput>>
    /\ UNCHANGED tokenRest

\* The values a client can send under "authorization".
TokenHeaders ==
    {<<>>, <<"">>} \cup UNION {{<<raw>>, <<"Bearer " \o raw>>} : raw \in RawTokens}

\* A request is authenticated.
Authenticate ==
    /\ \E tokens \in TokenHeaders, dbOK \in BOOLEAN :
        /\ authInput' = tokens
        /\ authResult' = authenticateRequest(tokens, api_tokens, dbOK)
    /\ UNCHANGED <<api_tokens, issued>>
    /\ UNCHANGED tokenRest

(***************************************************************************)
(* Task queue.                                                             *)
(***************************************************************************)

\* The AIAnalysisTask that PublishAITask marshals.
NewTask(runID, user) == [run_id |-> runID, user_id |-> user]

\* LPUSH: the task is added at the left of the list.
LPush(q, task) == <<task>> \o q

(***************************************************************************)
(* Event channel swiftlog:logs.                                            *)
(***************************************************************************)
\* websocket.PublishLog: the LogMessage it marshals and publishes.
LogMessage(runID, timestamp, level, content) ==
    [type |-> "log", run_id |-> runID, timestamp |-> timestamp, level |-> level,
     content |-> content]

PublishLog(channel, runID, timestamp, level, content) ==
    Append(channel, LogMessage(runID, timestamp, level, content))

\* websocket.PublishRunUpdate: the RunUpdateMessage it marshals and
\* publishes.
RunUpdateMessage(runID, status, exitCode) ==
    [type |-> "run_update", run_id |-> runID, status |-> status, exit_code |-> exitCode]

PublishRunUpdate(channel, runID, status, exitCode) ==
    Append(channel, RunUpdateMessage(runID, status, exitCode))

(***************************************************************************)
(* Ingestor: Service.StreamLog.                                            *)
(***************************************************************************)
LineFrames == [timestamp : Timestamps, level : Levels, content : Contents]

\* fmt.Sprintf("[%s] %s", line.Level.String(), line.Content)
FormatLine(level, content) == "[" \o level \o "] " \o content

\* The loki.LogEntry built from a Line frame.
Entry(line) ==
    [Timestamp |-> line.timestamp, Line |-> FormatLine(line.level, line.content)]

\* The entry StreamLog builds from a Line frame is marshalled.
MarshalEntry ==
    /\ marshalled = <<>>
    /\ marshalled' = <<MarshalJSON(Entry(marshalArgs))>>
    /\ UNCHANGED marshalArgs
    /\ UNCHANGED <<ivars, svars, qvars, wvars, mvars, pvars, tvars, hvars, evars, gvars,
                   fvars, bvars, avars, dvars, cvars, rvars>>

\* The run status chosen from the exit code of the Completion frame.
RunStatusFor(exitCode) ==
    IF exitCode = 0 THEN RunStatusCompleted ELSE RunStatusFailed

\* flushBatch returns nil: the batch is empty, or PushLogs succeeded.
FlushOKAlways(batch, pushOK) == TRUE
FlushOK(batch, pushOK) == Len(batch) = 0 \/ pushOK

\* logBatch after flushBatch: cleared only when the push succeeded.
BatchAfterFlush(batch, pushOK) == IF FlushOK(batch, pushOK) THEN <<>> ELSE batch

\* The store after flushBatch.
LokiAfterFlush(runID, batch, pushOK) ==
    IF Len(batch) > 0 /\ pushOK THEN PushLogs(loki, runID, batch) ELSE loki

PcAfterCompletionLoops == "open"

\* The handler returns after it has handled the Completion frame.
PcAfterCompletion == "done"

\* The handler returns; the deferred batchTicker.Stop() runs.
Return(s, path) ==
    /\ pc' = [pc EXCEPT ![s] = "done"]
    /\ exitPath' = [exitPath EXCEPT ![s] = path]
    /\ tick' = [tick EXCEPT ![s] = FALSE]
    /\ inRecv' = [inRecv EXCEPT ![s] = FALSE]

\* The handler goes back to the select statement of the loop.
Continue(s) ==
    /\ UNCHANGED <<pc, exitPath, tick>>
    /\ inRecv' = [inRecv EXCEPT ![s] = FALSE]

\* The values a client sends under the "authorization" metadata key: none,
\* an empty one, a token no row matches, a prefix without token, and the
\* tokens of the two users, bare and behind "Bearer ".
UserTokens ==
    [u \in Users |->
        IF u = "u1" THEN "QUFBQUFBQUFBQUFBQUFBQUFBQUFBQUFBQUFBQUFBQUE="
        ELSE "QkJCQkJCQkJCQkJCQkJCQkJCQkJCQkJCQkJCQkJCQkI="]
Authorizations ==
    {<<>>, <<"">>, <<"Bearer ">>,
     <<"Q0NDQ0NDQ0NDQ0NDQ0NDQ0NDQ0NDQ0NDQ0NDQ0NDQ0M=">>,
     <<UserTokens["u1"]>>, <<"Bearer " \o UserTokens["u2"]>>}

\* The payload of the first frame: one of the oneof cases, or none set.
FirstFrames == {"metadata", "line", "completion", "empty"}

\* metadata.ProjectName and metadata.GroupName, "default" when empty.
MetadataFrames == [project_name : {""}, group_name : {""}]
DefaultName(name) == IF name = "" THEN "default" ELSE name

\* The rows user_settings and project_settings hold for the user and the
\* project of a stream.
StreamProjectSettingsRows ==
    {row \in ProjectSettingsRows :
        /\ ~row.ai_api_key.Valid
        /\ ~row.ai_model.Valid
        /\ ~row.ai_max_log_lines.Valid
        /\ ~row.ai_max_concurrent.Valid}
StreamUserSettingsRows == {row \in UserSettingsRows : row.ai_api_key.Valid}

\* The rows the worker can find in the two tables when it processes a task.
WorkerProjectSettingsRows ==
    {row \in ProjectSettingsRows :
        /\ ~row.ai_model.Valid
        /\ ~row.ai_max_log_lines.Valid
        /\ ~row.ai_max_concurrent.Valid}

\* initialAIStatus: pending when the settings were resolved and have both
\* AIEnabled and AIAutoAnalyze, none otherwise.
InitialAIStatus(effective) ==
    IF Len(effective) # 0 /\ effective[1].AIEnabled /\ effective[1].AIAutoAnalyze
    THEN AIStatusPending
    ELSE AIStatusNone

CodeInternal(path) ==
    CASE path = "unauthenticated" -> "Unauthenticated"
      [] path = "cancelled" -> "Canceled"
      [] path \in {"eof", "completion"} -> "OK"
      [] path = "none" -> "none"
      [] OTHER -> "Internal"

\* The gRPC status code of each return statement.
Code(path) ==
    CASE path = "unauthenticated" -> "Unauthenticated"
      [] path = "no_metadata" -> "InvalidArgument"
      [] path = "cancelled" -> "Canceled"
      [] path \in {"eof", "completion"} -> "OK"
      [] path = "none" -> "none"
      [] OTHER -> "Internal"

\* The interceptor or the handler returns before a run is created: the
\* token is not valid, the first Recv fails, the first frame holds no
\* metadata, or a GetOrCreate or the INSERT of the run fails.
Reject(s) ==
    /\ pc[s] = "init"
    /\ \E tokens \in Authorizations, dbOK \in BOOLEAN :
        LET auth == authenticateRequest(tokens, api_tokens, dbOK)
        IN  /\ authorization' = [authorization EXCEPT ![s] = tokens]
            /\ IF ~auth.ok
               THEN /\ Return(s, "unauthenticated")
                    /\ UNCHANGED <<userID, firstFrame, pvars>>
               ELSE /\ userID' = [userID EXCEPT ![s] = auth.userID]
                    /\ \/ /\ Return(s, "first_recv_error")
                          /\ UNCHANGED <<firstFrame, pvars>>
                       \/ /\ \E frame \in FirstFrames \ {"metadata"} :
                                firstFrame' = [firstFrame EXCEPT ![s] = frame]
                          /\ Return(s, "no_metadata")
                          /\ UNCHANGED pvars
                       \/ /\ firstFrame' = [firstFrame EXCEPT ![s] = "metadata"]
                          /\ \E metadata \in MetadataFrames :
                             LET projectName == DefaultName(metadata.project_name)
                                 groupName == DefaultName(metadata.group_name)
                                 project == ProjectRow(auth.userID, projectName)
                             IN  \/ /\ Return(s, "project_error")
                                    /\ UNCHANGED pvars
                                 \/ /\ Return(s, "group_error")
                                    /\ projects' = ProjectsAfterGetOrCreate(
                                           projects, auth.userID, projectName)
                                    /\ UNCHANGED log_groups
                                 \/ /\ Return(s, "create_error")
                                    /\ projects' = ProjectsAfterGetOrCreate(
                                           projects, auth.userID, projectName)
                                    /\ log_groups' = GroupsAfterGetOrCreate(
                                           log_groups, project.id, groupName)
    /\ UNCHANGED <<ctxDone, logRun, warned, logBatch, recvd, completion>>
    /\ UNCHANGED <<effectiveSettings, extraMetadata, yvars>>
    /\ UNCHANGED <<svars, qvars, wvars>>

\* The token is valid, the first frame is Metadata, project and group are
\* found or created and the run is inserted.  The handler enters the
\* receive loop when the Started reply was sent, and returns when not.
Open(s) ==
    /\ pc[s] = "init"
    /\ \E tokens \in Authorizations, metadata \in MetadataFrames,
          userRow \in Maybe(StreamUserSettingsRows),
          projectRow \in Maybe(StreamProjectSettingsRows), sent \in BOOLEAN :
        LET auth == authenticateRequest(tokens, api_tokens, TRUE)
            projectName == DefaultName(metadata.project_name)
            groupName == DefaultName(metadata.group_name)
            project == ProjectRow(auth.userID, projectName)
            group == GroupRow(project.id, groupName)
            effective == GetEffectiveSettings(userRow, projectRow)
            initialAIStatus == InitialAIStatus(effective)
        IN  /\ auth.ok
            /\ authorization' = [authorization EXCEPT ![s] = tokens]
            /\ userID' = [userID EXCEPT ![s] = auth.userID]
            /\ firstFrame' = [firstFrame EXCEPT ![s] = "metadata"]
            /\ projects' = ProjectsAfterGetOrCreate(projects, auth.userID, projectName)
            /\ log_groups' = GroupsAfterGetOrCreate(log_groups, project.id, groupName)
            /\ effectiveSettings' = [effectiveSettings EXCEPT ![s] = effective]
            /\ runs' = runs @@ (RunIdOf(s) :> Create(group.id, initialAIStatus))
            /\ logRun' = [logRun EXCEPT ![s] = Create(group.id, initialAIStatus)]
            /\ IF sent
               THEN /\ pc' = [pc EXCEPT ![s] = "open"]
                    /\ UNCHANGED <<exitPath, tick, inRecv>>
               ELSE Return(s, "started_error")
    /\ UNCHANGED <<ctxDone, warned, logBatch, recvd, completion, loki>>
    /\ UNCHANGED <<extraMetadata, yvars>>
    /\ UNCHANGED <<qvars, wvars>>

\* case <-ctx.Done(): the context was cancelled; the flush runs under the
\* cancelled context, so its request is not sent.
SelectCtxDone(s) ==
    /\ pc[s] = "open"
    /\ ~inRecv[s]
    /\ ctxDone' = [ctxDone EXCEPT ![s] = TRUE]
    /\ Return(s, "cancelled")
    /\ UNCHANGED <<userID, logRun, warned, logBatch, recvd, completion>>
    /\ UNCHANGED <<svars, qvars, wvars>>
    /\ UNCHANGED xvars

\* The ticker fires: batchTicker.C has room for one tick, and a tick that
\* finds it full is dropped.
Tick(s) ==
    /\ pc[s] = "open"
    /\ ~tick[s]
    /\ tick' = [tick EXCEPT ![s] = TRUE]
    /\ UNCHANGED <<pc, exitPath, userID, ctxDone, logRun, warned, logBatch, recvd,
                   completion, inRecv>>
    /\ UNCHANGED <<svars, qvars, wvars>>
    /\ UNCHANGED xvars

\* default: no case of the select is ready, and the handler calls
\* stream.Recv(), which blocks until the client's next frame, the end of
\* the stream or an error.
SelectDefault(s) ==
    /\ pc[s] = "open"
    /\ ~inRecv[s]
    /\ ~tick[s]
    /\ inRecv' = [inRecv EXCEPT ![s] = TRUE]
    /\ UNCHANGED <<pc, exitPath, userID, ctxDone, logRun, warned, logBatch, recvd,
                   completion, tick>>
    /\ UNCHANGED <<svars, qvars, wvars>>
    /\ UNCHANGED xvars

\* case <-batchTicker.C
SelectTicker(s) ==
    /\ pc[s] = "open"
    /\ ~inRecv[s]
    /\ tick[s]
    /\ \E pushOK \in BOOLEAN :
        /\ loki' = LokiAfterFlush(RunIdOf(s), logBatch[s], pushOK)
        /\ logBatch' = [logBatch EXCEPT ![s] = BatchAfterFlush(@, pushOK)]
        /\ IF FlushOK(logBatch[s], pushOK)
           THEN /\ tick' = [tick EXCEPT ![s] = FALSE]
                /\ UNCHANGED <<pc, exitPath, inRecv>>
           ELSE Return(s, "ticker_flush_error")
    /\ UNCHANGED <<userID, ctxDone, logRun, warned, recvd, completion, runs>>
    /\ UNCHANGED <<qvars, wvars>>
    /\ UNCHANGED xvars

\* Recv returns io.EOF: the client half-closed the stream.
RecvEOF(s) ==
    /\ pc[s] = "open"
    /\ inRecv[s]
    /\ \E pushOK \in BOOLEAN :
        /\ loki' = LokiAfterFlush(RunIdOf(s), logBatch[s], pushOK)
        /\ logBatch' = [logBatch EXCEPT ![s] = BatchAfterFlush(@, pushOK)]
    /\ Return(s, "eof")
    /\ UNCHANGED <<userID, ctxDone, logRun, warned, recvd, completion, runs>>
    /\ UNCHANGED <<qvars, wvars>>
    /\ UNCHANGED xvars

\* Recv returns another error.  When the error is the transport closing, the
\* stream context is cancelled with it, and the flush and the UPDATE run
\* under the cancelled context.
RecvError(s) ==
    /\ pc[s] = "open"
    /\ inRecv[s]
    /\ \E cancelled \in BOOLEAN, pushOK \in BOOLEAN, updateOK \in BOOLEAN :
        /\ cancelled => ~pushOK
        /\ updateOK => UpdateStatusCanSucceed(cancelled, NullInt32)
        /\ ctxDone' = [ctxDone EXCEPT ![s] = cancelled]
        /\ loki' = LokiAfterFlush(RunIdOf(s), logBatch[s], pushOK)
        /\ logBatch' = [logBatch EXCEPT ![s] = BatchAfterFlush(@, pushOK)]
        /\ runs' = IF updateOK
                   THEN RunsAfterUpdateStatus(RunIdOf(s), RunStatusAborted, NullInt32)
                   ELSE runs
    /\ Return(s, "recv_error")
    /\ UNCHANGED <<userID, logRun, warned, recvd, completion>>
    /\ UNCHANGED <<qvars, wvars>>
    /\ UNCHANGED xvars

\* Recv returns a Line frame.
RecvLine(s) ==
    /\ pc[s] = "open"
    /\ inRecv[s]
    /\ Len(recvd[s]) < MaxLines
    /\ \E line \in LineFrames, pushOK \in BOOLEAN :
        LET batch == Append(logBatch[s], Entry(line))
            full == Len(batch) >= BatchSize
        IN  /\ recvd' = [recvd EXCEPT ![s] = Append(@, line)]
            /\ loki' = IF full THEN LokiAfterFlush(RunIdOf(s), batch, pushOK) ELSE loki
            /\ logBatch' = [logBatch EXCEPT ![s] =
                               IF full THEN BatchAfterFlush(batch, pushOK) ELSE batch]
            /\ IF full /\ ~FlushOK(batch, pushOK)
               THEN Return(s, "batch_flush_error")
               ELSE Continue(s)
    /\ UNCHANGED <<userID, ctxDone, logRun, warned, completion, runs>>
    /\ UNCHANGED <<qvars, wvars>>
    /\ UNCHANGED xvars

\* Recv returns a Completion frame.
RecvCompletion(s) ==
    /\ pc[s] = "open"
    /\ inRecv[s]
    /\ \E exitCode \in ExitCodes, pushOK \in BOOLEAN, updateOK \in BOOLEAN,
          lpushOK \in BOOLEAN :
        LET flushed == FlushOK(logBatch[s], pushOK)
            updated == flushed /\ updateOK
            trigger == updated /\ logRun[s].ai_status = AIStatusPending
            publish == trigger /\ lpushOK
        IN  /\ updateOK => UpdateStatusCanSucceed(FALSE, Int32(exitCode))
            /\ completion' = [completion EXCEPT ![s] = Int32(exitCode)]
            /\ loki' = LokiAfterFlush(RunIdOf(s), logBatch[s], pushOK)
            /\ logBatch' = [logBatch EXCEPT ![s] = BatchAfterFlush(@, pushOK)]
            /\ runs' = IF updated
                       THEN RunsAfterUpdateStatus(RunIdOf(s), RunStatusFor(exitCode),
                                                  Int32(exitCode))
                       ELSE runs
            /\ queue' = IF publish THEN LPush(queue, NewTask(RunIdOf(s), userID[s])) ELSE queue
            /\ taskLog' = IF publish
                          THEN Append(taskLog, NewTask(RunIdOf(s), userID[s]))
                          ELSE taskLog
            /\ warned' = [warned EXCEPT ![s] = trigger /\ ~lpushOK]
            /\ IF ~flushed THEN Return(s, "final_flush_error")
               ELSE IF ~updated THEN Return(s, "update_status_error")
               ELSE /\ pc' = [pc EXCEPT ![s] = PcAfterCompletion]
                    /\ exitPath' = [exitPath EXCEPT ![s] = "completion"]
                    /\ tick' = [tick EXCEPT ![s] = FALSE]
                    /\ inRecv' = [inRecv EXCEPT ![s] = FALSE]
    /\ UNCHANGED <<userID, ctxDone, logRun, recvd>>
    /\ UNCHANGED wvars
    /\ UNCHANGED xvars

\* Recv returns a Metadata frame inside the loop: GetLine and GetCompletion
\* are both nil, and the loop goes on.
RecvMetadata(s) ==
    /\ pc[s] = "open"
    /\ inRecv[s]
    /\ extraMetadata' = [extraMetadata EXCEPT ![s] = TRUE]
    /\ Continue(s)
    /\ UNCHANGED <<userID, ctxDone, logRun, warned, logBatch, recvd, completion>>
    /\ UNCHANGED <<authorization, firstFrame, effectiveSettings, pvars, yvars>>
    /\ UNCHANGED <<svars, qvars, wvars>>


(***************************************************************************)
(* AI analyzer: prepareLogs.                                               *)
(***************************************************************************)
\* The log lines of a run, as processRun hands them to AnalyzeLogs.
LogLines == {"a", "b"}
LogLists == UNION {[1..n -> LogLines] : n \in 1..MaxLogs}
\* "head", "tail", "smart", and a value that is none of them.
Strategies == {"head", "tail", "smart", "middle"}

\* fmt.Sprintf("... [%d lines omitted] ...", n)
Marker(n) == "... [" \o ToString(n) \o " lines omitted] ..."

\* What a loop "for i := from; i < to; i++" writes: logs[i] and "\n".
WriteLines(logs, from, to) == [k \in 1..(to - from) |-> logs[from + k]]

FirstPartSixty(maxLines) == (6 * maxLines) \div 10

\* int(float64(maxLines) * 0.4): the product of a non-negative int below
\* 2^50 and the double nearest to 0.4, truncated, is the integer part of
\* 2 * maxLines / 5.
FirstPart(maxLines) == (2 * maxLines) \div 5

\* prepareLogs(logs, maxLines, strategy): the returned string as the
\* sequence of its lines, the text between two "\n".
RECURSIVE prepareLogs(_, _, _)
prepareLogs(logs, maxLines, strategy) ==
    IF Len(logs) <= maxLines THEN logs
    ELSE IF strategy = "head"
    THEN WriteLines(logs, 0, IF maxLines < Len(logs) THEN maxLines ELSE Len(logs))
         \o <<"", Marker(Len(logs) - maxLines)>>
    ELSE IF strategy = "tail"
    THEN <<Marker(Len(logs) - maxLines), "">>
         \o WriteLines(logs, Len(logs) - maxLines, Len(logs))
    ELSE IF strategy = "smart"
    THEN LET firstPart == FirstPart(maxLines)
             lastPart == maxLines - firstPart
         IN  WriteLines(logs, 0, firstPart)
             \o <<"", Marker(Len(logs) - maxLines), "">>
             \o WriteLines(logs, Len(logs) - lastPart, Len(logs))
    ELSE prepareLogs(logs, maxLines, "tail")

\* AnalyzeLogs calls prepareLogs.
PrepareLogs ==
    /\ prepared = <<>>
    /\ prepared' = <<prepareLogs(prepareArgs.logs, prepareArgs.maxLines,
                                 prepareArgs.strategy)>>
    /\ UNCHANGED prepareArgs
    /\ UNCHANGED prepareRest

(***************************************************************************)
(* LogRunRepository.UpdateStatus, called on any run.                       *)
(***************************************************************************)
\* The rows of log_runs a run can have: running, or ended by a Completion
\* frame or by a stream error.
RunRows ==
    {Create("group:1", AIStatusNone)}
    \cup {UpdateStatus(Create("group:1", AIStatusNone), RunStatusFor(c), Int32(c)) :
             c \in {c \in ExitCodes : ExitCodeRangeOK(Int32(c))}}
    \cup {UpdateStatus(Create("group:1", AIStatusNone), RunStatusAborted, NullInt32)}

RunIds == {"r1", "r2"}
NoCall == [made |-> FALSE, id |-> "", status |-> "", exit_code |-> NullInt32,
           prior |-> Create("", AIStatusNone), err |-> FALSE]

\* One call of LogRunRepository.UpdateStatus(ctx, id, status, exitCode):
\* the error is that of ExecContext, and the number of rows the UPDATE
\* changed is not looked at.
UpdateStatusCall(id, status, exitCode, execOK) ==
    /\ finalizeCall' = [made |-> TRUE, id |-> id, status |-> status,
                        exit_code |-> exitCode, prior |-> runs[id],
                        err |-> ~execOK]
    /\ runs' = IF execOK THEN RunsAfterUpdateStatus(id, status, exitCode) ELSE runs

\* The calls StreamLog makes: the status and exit code of a Completion
\* frame, or aborted without an exit code.
FinalizeArgs ==
    {[status |-> RunStatusFor(c), exit_code |-> Int32(c)] : c \in ExitCodes}
    \cup {[status |-> RunStatusAborted, exit_code |-> NullInt32]}

FinalizeRun ==
    \E id \in RunIds, args \in FinalizeArgs, execOK \in BOOLEAN :
        /\ execOK => UpdateStatusCanSucceed(FALSE, args.exit_code)
        /\ UpdateStatusCall(id, args.status, args.exit_code, execOK)
        /\ UNCHANGED finalizeRest

(***************************************************************************)
(* AI worker: Worker.Run, processRunByID, processRun.                      *)
(***************************************************************************)
NoTask == [run_id |-> "none", user_id |-> "none"]

\* Redis list after BRPOP, which takes the task at the right of the list.
BRPopRest(q) == SubSeq(q, 1, Len(q) - 1)
BRPopTaskLeft(q) == q[1]
BRPopTask(q) == q[Len(q)]

UpdateAIStatusLost(row, status) == row

\* LogRunRepository.UpdateAIStatus: SET ai_status = $1.
UpdateAIStatus(row, status) == [row EXCEPT !.ai_status = status]

\* LogRunRepository.UpdateAIReport: SET ai_report = $1, ai_status = $2.
UpdateAIReport(row, report, status) ==
    [row EXCEPT !.ai_report = report, !.ai_status = status]

\* An UPDATE ... WHERE id = $n that matches no row changes nothing.
RunsAfter(id, row) ==
    IF id \in DOMAIN runs THEN [runs EXCEPT ![id] = row] ELSE runs

\* The text the external model returned (result.Report).
ModelText == "report"

\* The errors processRun returns, by the step that failed.
ProcessRunErrors ==
    {"failed to update status", "failed to get group",
     "failed to get effective settings",
     "AI analysis is disabled for this user/project",
     "AI API key not configured", "failed to fetch logs",
     "no logs found for run", "AI analysis failed", "failed to save report"}

\* fmt.Sprintf("Error: %v", err), and "Error: Run not found: %v" when the
\* run could not be loaded.
ErrorReport(err) ==
    IF err = "failed to get run" THEN "Error: Run not found" ELSE "Error: " \o err

\* The status Worker.Run notifies for the error processRunByID returned.
NotifyStatus(err) == IF err = "" THEN "completed" ELSE "failed"

\* main cancels the root context on SIGINT or SIGTERM.
WorkerShutdown ==
    /\ ~wctxDone
    /\ wctxDone' = TRUE
    /\ wblocked' = (wpc = "dequeue" /\ queue = <<>>)
    /\ UNCHANGED <<wpc, wtask, werr, results, finished, modelCalls>>
    /\ UNCHANGED <<ivars, svars, qvars>>
    /\ UNCHANGED xvars

\* case <-ctx.Done(): return
WorkerStop ==
    /\ wpc = "idle"
    /\ wctxDone
    /\ wpc' = "stopped"
    /\ UNCHANGED <<wtask, werr, wctxDone, results, finished, modelCalls, wblocked>>
    /\ UNCHANGED <<ivars, svars, qvars>>
    /\ UNCHANGED xvars

\* select default: ctx is not done, so ConsumeAITask(ctx, 5*time.Second) is
\* called and blocks in BRPOP.
WorkerDequeue ==
    /\ wpc = "idle"
    /\ ~wctxDone
    /\ wpc' = "dequeue"
    /\ UNCHANGED <<wtask, werr, wctxDone, results, finished, modelCalls, wblocked>>
    /\ UNCHANGED <<ivars, svars, qvars>>
    /\ UNCHANGED xvars

\* ConsumeAITask returns a task: BRPop returned an element without error.
\* Nothing between the return and processRunByID reads ctx.
Consume ==
    /\ wpc = "dequeue"
    /\ queue # <<>>
    /\ wtask' = BRPopTask(queue)
    /\ queue' = BRPopRest(queue)
    /\ wpc' = "get"
    /\ werr' = ""
    /\ UNCHANGED <<wctxDone, results, finished, modelCalls, wblocked, taskLog>>
    /\ UNCHANGED <<ivars, svars>>
    /\ UNCHANGED xvars

\* ConsumeAITask returns no task (the 5 s timeout, an error, or the error of
\* a cancelled ctx): continue.
ConsumeNone ==
    /\ wpc = "dequeue"
    /\ wpc' = "idle"
    /\ UNCHANGED <<wtask, werr, wctxDone, results, finished, modelCalls, wblocked>>
    /\ UNCHANGED <<ivars, svars, qvars>>
    /\ UNCHANGED xvars

Fail(err) ==
    /\ werr' = err
    /\ wpc' = "markfail"

\* processRunByID: logRunRepo.GetByID
GetRun ==
    /\ wpc = "get"
    /\ \E ok \in BOOLEAN :
        /\ ok => (~wctxDone /\ wtask.run_id \in DOMAIN runs)
        /\ IF ok THEN wpc' = "setproc" /\ UNCHANGED werr
           ELSE Fail("failed to get run")
    /\ UNCHANGED <<wtask, wctxDone, results, finished, modelCalls, wblocked>>
    /\ UNCHANGED <<ivars, svars, qvars>>
    /\ UNCHANGED xvars

\* processRun: UpdateAIStatus(ctx, run.ID, models.AIStatusProcessing)
SetProcessing ==
    /\ wpc = "setproc"
    /\ \E ok \in BOOLEAN :
        /\ ok => ~wctxDone
        /\ IF ok
           THEN /\ runs' = RunsAfter(wtask.run_id,
                              UpdateAIStatus(runs[wtask.run_id], AIStatusProcessing))
                /\ wpc' = "analyze"
                /\ UNCHANGED werr
           ELSE /\ Fail("failed to update status")
                /\ UNCHANGED runs
    /\ UNCHANGED <<wtask, wctxDone, results, finished, modelCalls, wblocked, loki>>
    /\ UNCHANGED <<ivars, qvars>>
    /\ UNCHANGED xvars

\* The errors of the reads processRun makes before the model call.
ReadErrors ==
    {"failed to get group", "failed to get effective settings", "failed to fetch logs"}

\* processRun from groupRepo.GetByID to analyzer.AnalyzeLogs, in the order of
\* the code: the first step that fails decides the error.  readErr is the
\* read that failed (if any), effective what GetEffectiveSettings returned,
\* logs what QueryLogs returned, modelOK whether AnalyzeLogs succeeded.
ProcessRunError(readErr, effective, logs, modelOK) ==
    IF readErr = "failed to get group" THEN "failed to get group"
    ELSE IF readErr = "failed to get effective settings" \/ Len(effective) = 0
    THEN "failed to get effective settings"
    ELSE IF ~effective[1].AIEnabled
    THEN "AI analysis is disabled for this user/project"
    ELSE IF effective[1].AIAPIKey = "" THEN "AI API key not configured"
    ELSE IF readErr = "failed to fetch logs" THEN "failed to fetch logs"
    ELSE IF Len(logs) = 0 THEN "no logs found for run"
    ELSE IF ~modelOK THEN "AI analysis failed"
    ELSE ""

\* analyzer.AnalyzeLogs is reached when no earlier step returned.
ModelCalled(readErr, effective, logs) ==
    ProcessRunError(readErr, effective, logs, TRUE) = ""

\* processRun from groupRepo.GetByID to analyzer.AnalyzeLogs.  The group and
\* settings reads and the Loki query run under ctx; the settings are read as
\* the two tables hold them at that moment.
Analyze ==
    /\ wpc = "analyze"
    /\ \E userRow \in Maybe(UserSettingsRows),
          projectRow \in Maybe(WorkerProjectSettingsRows),
          readErr \in {""} \cup ReadErrors, modelOK \in BOOLEAN :
        LET effective == GetEffectiveSettings(userRow, projectRow)
            logs == QueryLogs(loki, wtask.run_id)
            err == ProcessRunError(readErr, effective, logs, modelOK)
        IN  /\ wctxDone => readErr = "failed to get group"
            /\ modelCalls' =
                   IF ModelCalled(readErr, effective, logs)
                   THEN modelCalls \cup
                            {[run_id |-> wtask.run_id,
                              AIEnabled |-> effective[1].AIEnabled,
                              AIAPIKey |-> effective[1].AIAPIKey,
                              lines |-> Len(logs)]}
                   ELSE modelCalls
            /\ IF err = "" THEN wpc' = "save" /\ UNCHANGED werr
               ELSE Fail(err)
    /\ UNCHANGED <<wtask, wctxDone, results, finished, wblocked>>
    /\ UNCHANGED <<ivars, svars, qvars>>
    /\ UNCHANGED xvars

\* processRun: UpdateAIReport(ctx, run.ID, result.Report, AIStatusCompleted)
SaveReport ==
    /\ wpc = "save"
    /\ \E ok \in BOOLEAN :
        /\ ok => ~wctxDone
        /\ IF ok
           THEN /\ runs' = RunsAfter(wtask.run_id,
                              UpdateAIReport(runs[wtask.run_id], ModelText,
                                             AIStatusCompleted))
                /\ wpc' = "notify"
                /\ UNCHANGED werr
           ELSE /\ Fail("failed to save report")
                /\ UNCHANGED runs
    /\ UNCHANGED <<wtask, wctxDone, results, finished, modelCalls, wblocked, loki>>
    /\ UNCHANGED <<ivars, qvars>>
    /\ UNCHANGED xvars

\* processRunByID: _ = UpdateAIReport(ctx, runID, "Error: ...", AIStatusFailed)
MarkFailed ==
    /\ wpc = "markfail"
    /\ \E ok \in BOOLEAN :
        /\ ok => ~wctxDone
        /\ runs' = IF ok
                   THEN RunsAfter(wtask.run_id,
                            UpdateAIReport(runs[wtask.run_id], ErrorReport(werr),
                                           AIStatusFailed))
                   ELSE runs
    /\ wpc' = "notify"
    /\ UNCHANGED <<wtask, werr, wctxDone, results, finished, modelCalls, wblocked, loki>>
    /\ UNCHANGED <<ivars, qvars>>
    /\ UNCHANGED xvars

\* Worker.Run: _ = NotifyAIResult(ctx, task.RunID, status, message)
Notify ==
    /\ wpc = "notify"
    /\ \E ok \in BOOLEAN :
        /\ ok => ~wctxDone
        /\ results' = IF ok
                      THEN Append(results, [run_id |-> wtask.run_id,
                                            status |-> NotifyStatus(werr)])
                      ELSE results
    /\ finished' = finished \cup {wtask.run_id}
    /\ wpc' = "idle"
    /\ wtask' = NoTask
    /\ werr' = ""
    /\ UNCHANGED <<wctxDone, modelCalls, wblocked>>
    /\ UNCHANGED <<ivars, svars, qvars>>
    /\ UNCHANGED xvars

(***************************************************************************)
(* Task queue with several producers and several workers.                  *)
(***************************************************************************)
\* The worker processes that share the queue.
QueueWorkers == {"w1", "w2"}

\* Queue.PublishAITask, called by a stream handler or by the API: one LPUSH.
PublishAITask ==
    /\ Len(taskLog) < MaxEnqueued
    /\ \E r \in RunIds, u \in Users :
        /\ queue' = LPush(queue, NewTask(r, u))
        /\ taskLog' = Append(taskLog, NewTask(r, u))
    /\ UNCHANGED delivered
    /\ UNCHANGED queueRest

\* Queue.ConsumeAITask of worker w returns a task: one BRPOP, which removes
\* the element it returns in the same command.
ConsumeAITask(w) ==
    /\ queue # <<>>
    /\ delivered' = Append(delivered, [worker |-> w, task |-> BRPopTask(queue)])
    /\ queue' = BRPopRest(queue)
    /\ UNCHANGED taskLog
    /\ UNCHANGED queueRest

(***************************************************************************)
(* CLI: swiftlog run (runRun, executeCommand, streamOutput).               *)
(***************************************************************************)
\* The two pipes of the wrapped command; isStderr is fd = "STDERR".
Fds == Levels
\* Exit codes of the wrapped command.
CmdExitCodes == {0, 3}

LineFrame(fd, content) == [type |-> "line", level |-> fd, content |-> content]
CompletionFrame(exitCode) == [type |-> "completion", exit_code |-> exitCode]

\* The wrapped command writes a line to stdout or to stderr.
CmdWrite(fd) ==
    /\ ~cmdExit.Valid
    /\ Len(written["STDOUT"]) + Len(written["STDERR"]) < MaxWrites
    /\ \E content \in LogLines :
        /\ pipe' = [pipe EXCEPT ![fd] = Append(@, content)]
        /\ written' = [written EXCEPT ![fd] = Append(@, content)]
    /\ UNCHANGED <<cliPc, cmdExit, pipeClosed, readerDone, sentFrames, sendWarned, cliExit, inSend>>
    /\ UNCHANGED cliRest

\* The wrapped command exits.
CmdExit ==
    /\ ~cmdExit.Valid
    /\ \E c \in CmdExitCodes : cmdExit' = Int32(c)
    /\ UNCHANGED <<cliPc, pipe, pipeClosed, readerDone, written, sentFrames, sendWarned,
                   cliExit, inSend>>
    /\ UNCHANGED cliRest

\* streamOutput: scanner.Scan() returns a line and the goroutine calls
\* session.SendLogLine, which calls s.stream.Send.
ScanLine(fd) ==
    /\ ~readerDone[fd]
    /\ ~pipeClosed[fd]
    /\ inSend[fd] = <<>>
    /\ pipe[fd] # <<>>
    /\ pipe' = [pipe EXCEPT ![fd] = Tail(@)]
    /\ inSend' = [inSend EXCEPT ![fd] = <<Head(pipe[fd])>>]
    /\ UNCHANGED <<cliPc, cmdExit, pipeClosed, readerDone, written, sentFrames, sendWarned,
                   cliExit>>
    /\ UNCHANGED cliRest

\* s.stream.Send returns to the goroutine of fd; a failed Send only prints a
\* warning.
StreamSend(fd) ==
    /\ inSend[fd] # <<>>
    /\ inSend' = [inSend EXCEPT ![fd] = <<>>]
    /\ \E sendOK \in BOOLEAN :
        /\ sentFrames' = IF sendOK
                         THEN Append(sentFrames, LineFrame(fd, inSend[fd][1]))
                         ELSE sentFrames
        /\ sendWarned' = (sendWarned \/ ~sendOK)
    /\ UNCHANGED <<cliPc, cmdExit, pipe, pipeClosed, readerDone, written, cliExit>>
    /\ UNCHANGED cliRest

\* streamOutput: scanner.Scan() returns false, at the end of the pipe or with
\* the "file already closed" error of a read end that Wait has closed; the
\* error is ignored and done is signalled.
ScanEnd(fd) ==
    /\ ~readerDone[fd]
    /\ inSend[fd] = <<>>
    /\ pipeClosed[fd] \/ (pipe[fd] = <<>> /\ cmdExit.Valid)
    /\ readerDone' = [readerDone EXCEPT ![fd] = TRUE]
    /\ UNCHANGED <<cliPc, cmdExit, pipe, pipeClosed, written, sentFrames, sendWarned,
                   cliExit, inSend>>
    /\ UNCHANGED cliRest

\* executeCommand: command.Wait() returns once the command has exited, and
\* closes the read ends of StdoutPipe and StderrPipe, whatever is left in
\* them.
CommandWait ==
    /\ cliPc = "wait"
    /\ cmdExit.Valid
    /\ cliPc' = "join"
    /\ pipeClosed' = [fd \in Fds |-> TRUE]
    /\ UNCHANGED <<cmdExit, pipe, readerDone, written, sentFrames, sendWarned, cliExit, inSend>>
    /\ UNCHANGED cliRest

\* executeCommand receives twice from done and returns the exit status;
\* runRun sends the Completion frame and, when Send fails, returns the
\* error, on which Execute exits with 1.
SendCompletion ==
    /\ cliPc = "join"
    /\ \A fd \in Fds : readerDone[fd]
    /\ \E sendOK \in BOOLEAN :
        IF sendOK
        THEN /\ sentFrames' = Append(sentFrames, CompletionFrame(cmdExit.Int32))
             /\ cliPc' = "wait_server"
             /\ UNCHANGED cliExit
        ELSE /\ cliPc' = "exited"
             /\ cliExit' = Int32(1)
             /\ UNCHANGED sentFrames
    /\ UNCHANGED <<cmdExit, pipe, pipeClosed, readerDone, written, sendWarned, inSend>>
    /\ UNCHANGED cliRest

\* runRun: WaitForCompletion returns and os.Exit(exitCode) ends the process.
CliExit ==
    /\ cliPc = "wait_server"
    /\ cliPc' = "exited"
    /\ cliExit' = cmdExit
    /\ UNCHANGED <<cmdExit, pipe, pipeClosed, readerDone, written, sentFrames, sendWarned, inSend>>
    /\ UNCHANGED cliRest

(***************************************************************************)
(* WebSocket server: handleWebSocket and Hub.Run.                          *)
(***************************************************************************)
HubClients == {"c1", "c2"}
\* Runs of the two users, each in the default group of the default project.
HubRuns == {"r1", "r2"}
HubOwner == [r \in HubRuns |-> IF r = "r1" THEN "u1" ELSE "u2"]

\* The token query parameter and the run_id path parameter of a request.
QueryTokens ==
    {"", "Q0NDQ0NDQ0NDQ0NDQ0NDQ0NDQ0NDQ0NDQ0NDQ0NDQ0M="}
        \cup {UserTokens[u] : u \in Users}
RunParams == HubRuns \cup {"r9", "not-a-uuid"}

\* uuid.Parse
ParseOK(param) == param # "not-a-uuid"

OwnsProjectAlways(project, uid) == TRUE

\* project.UserID != userID
OwnsProject(project, uid) == project.user_id = uid

\* handleWebSocket up to the upgrade: the HTTP status it answers with, 101
\* when the connection is upgraded.
HandleWebSocketStatus(token, runParam, dbOK, upgradeOK) ==
    LET auth == ValidateToken(api_tokens, token, dbOK)
        groupRows == {g \in log_groups : g.id = runs[runParam].group_id}
        group == CHOOSE g \in groupRows : TRUE
        projectRows == {pr \in projects : pr.id = group.project_id}
        project == CHOOSE pr \in projectRows : TRUE
    IN  IF token = "" THEN 401
        ELSE IF ~auth.ok THEN 401
        ELSE IF ~ParseOK(runParam) THEN 400
        ELSE IF runParam \notin DOMAIN runs THEN 404
        ELSE IF groupRows = {} THEN 500
        ELSE IF projectRows = {} \/ ~OwnsProject(project, auth.userID) THEN 403
        ELSE IF ~upgradeOK THEN 400
        ELSE 101

\* A request GET /ws/runs/:run_id?token=... is handled up to NewClient.
Connect(c) ==
    /\ conn[c].state = "new"
    /\ \E token \in QueryTokens, runParam \in RunParams, dbOK \in BOOLEAN,
          upgradeOK \in BOOLEAN :
        LET code == HandleWebSocketStatus(token, runParam, dbOK, upgradeOK)
        IN  conn' = [conn EXCEPT ![c] =
                        [state |-> IF code = 101 THEN "upgraded" ELSE "refused",
                         token |-> token, run_id |-> runParam, code |-> code]]
    /\ UNCHANGED <<clients, send, closed, broadcast, received, published, closes, arrivals>>
    /\ UNCHANGED hubRest

\* client.Register(): case client := <-h.register.
HubRegister(c) ==
    /\ conn[c].state = "upgraded"
    /\ conn' = [conn EXCEPT ![c].state = "registered"]
    /\ clients' = [clients EXCEPT ![conn[c].run_id] = @ \cup {c}]
    /\ UNCHANGED <<send, closed, broadcast, received, published, closes, arrivals>>
    /\ UNCHANGED hubRest

RegisteredAlways(c) == TRUE

\* if clients, ok := h.clients[client.runID]; ok { if _, ok := clients[client]; ok
Registered(c) == c \in clients[conn[c].run_id]

\* The connection of a registered client ends: case client := <-h.unregister;
\* closes counts the close(client.send) the hub has executed.
HubUnregister(c) ==
    /\ conn[c].state = "registered"
    /\ conn' = [conn EXCEPT ![c].state = "gone"]
    /\ IF Registered(c)
       THEN /\ clients' = [clients EXCEPT ![conn[c].run_id] = @ \ {c}]
            /\ closed' = [closed EXCEPT ![c] = TRUE]
            /\ closes' = [closes EXCEPT ![c] = @ + 1]
       ELSE UNCHANGED <<clients, closed, closes>>
    /\ UNCHANGED <<send, broadcast, received, published, arrivals>>
    /\ UNCHANGED hubRest

\* The LogMessage payloads published on swiftlog:logs.
LogMessages ==
    [Type : {"log"}, RunID : HubRuns, Timestamp : Timestamps, Level : {"STDOUT"},
     Content : Contents]

\* subscribeToRedis: a payload arrives; one that does not parse is skipped,
\* the others are handed to Hub.Broadcast, which blocks on a full channel.
SubscribeToRedis ==
    /\ published < MaxPublished
    /\ published' = published + 1
    /\ \/ UNCHANGED <<broadcast, arrivals>>
       \/ /\ Len(broadcast) < BroadcastCap
          /\ \E msg \in LogMessages :
                /\ broadcast' = Append(broadcast, [RunID |-> msg.RunID, Message |-> msg])
                /\ arrivals' = Append(arrivals, msg)
    /\ UNCHANGED <<conn, clients, send, closed, received, closes>>
    /\ UNCHANGED hubRest

SendToClientBlocking(c, message) ==
    [sent |-> TRUE, queue |-> Append(send[c], message)]

\* select { case client.send <- message: default: }: the message is
\* buffered when the channel has room.
SendToClient(c, message) ==
    IF Len(send[c]) < SendCap
    THEN [sent |-> TRUE, queue |-> Append(send[c], message)]
    ELSE [sent |-> FALSE, queue |-> send[c]]

\* message := <-h.broadcast: a receive takes the oldest message of the
\* channel.
ReceiveNewest(q) == [message |-> q[Len(q)], rest |-> SubSeq(q, 1, Len(q) - 1)]
Receive(q) == [message |-> Head(q), rest |-> Tail(q)]

\* clients := h.clients[message.RunID]
SubscribersOfAnyRun(runID) == UNION {clients[r] : r \in DOMAIN clients}
Subscribers(runID) == clients[runID]

\* case message := <-h.broadcast: every client of the run gets the message
\* or, when its send channel is full, is closed and deleted.
HubBroadcast ==
    /\ broadcast # <<>>
    /\ LET message == Receive(broadcast).message
           targets == Subscribers(message.RunID)
       IN  /\ broadcast' = Receive(broadcast).rest
           /\ send' = [c \in HubClients |->
                          IF c \in targets
                          THEN SendToClient(c, message.Message).queue
                          ELSE send[c]]
           /\ closed' = [c \in HubClients |->
                            IF c \in targets /\ ~SendToClient(c, message.Message).sent
                            THEN TRUE
                            ELSE closed[c]]
           /\ closes' = [c \in HubClients |->
                            IF c \in targets /\ ~SendToClient(c, message.Message).sent
                            THEN closes[c] + 1
                            ELSE closes[c]]
           /\ clients' = [clients EXCEPT ![message.RunID] =
                             {c \in @ : SendToClient(c, message.Message).sent}]
    /\ UNCHANGED <<conn, received, published, arrivals>>
    /\ UNCHANGED hubRest

\* The client writes the next message of its send channel to the connection.
WritePump(c) ==
    /\ send[c] # <<>>
    /\ received' = [received EXCEPT ![c] = Append(@, Head(send[c]))]
    /\ send' = [send EXCEPT ![c] = Tail(@)]
    /\ UNCHANGED <<conn, clients, closed, broadcast, published, closes, arrivals>>
    /\ UNCHANGED hubRest

(***************************************************************************)
(* REST API: the /runs/:id routes of cmd/api and their handlers.           *)
(***************************************************************************)
Routes == {"GET /runs/:id", "GET /runs/:id/logs", "POST /runs/:id/analyze"}

\* main: the routes registered on the group that uses AuthMiddleware.
Protected(route) == route = "POST /runs/:id/analyze"

\* The Authorization header of a request: absent, no token of the table, or
\* the token of a user, bare or after "Bearer ".
ApiHeaders ==
    {"", "Q0NDQ0NDQ0NDQ0NDQ0NDQ0NDQ0NDQ0NDQ0NDQ0NDQ0M="}
        \cup {UserTokens[u] : u \in Users}
        \cup {"Bearer " \o UserTokens[u] : u \in Users}

\* strings.HasPrefix / strings.TrimPrefix with "Bearer ".
TrimBearer(header) ==
    IF Len(header) >= 7 /\ SubSeq(header, 1, 7) = "Bearer "
    THEN SubSeq(header, 8, Len(header))
    ELSE header

\* AuthMiddleware: status 0 stands for c.Next() with user_id set.
AuthMiddleware(header, table, dbOK) ==
    LET token == TrimBearer(header)
        auth == ValidateToken(table, token, dbOK)
    IN  IF header = "" \/ token = "" \/ ~auth.ok
        THEN [status |-> 401, exists |-> FALSE, userID |-> NilUser]
        ELSE [status |-> 0, exists |-> TRUE, userID |-> auth.userID]

\* The context of a request to a route outside the protected group: no
\* middleware has set user_id.
NoMiddleware == [status |-> 0, exists |-> FALSE, userID |-> NilUser]

\* The ownership check of the three handlers, after the run was found:
\* 0 when the project of the run belongs to the user.
VerifyOwnership(runParam, uid) ==
    LET groupRows == {g \in log_groups : g.id = runs[runParam].group_id}
        group == CHOOSE g \in groupRows : TRUE
        projectRows == {pr \in projects : pr.id = group.project_id}
        project == CHOOSE pr \in projectRows : TRUE
    IN  IF groupRows = {} THEN 500
        ELSE IF projectRows = {} \/ ~OwnsProject(project, uid) THEN 403
        ELSE 0

Answer(status, body) == [status |-> status, body |-> body]

\* RunsHandler.GetRun
GetRunHandler(ctx, runParam, dbOK) ==
    IF ~ParseOK(runParam) THEN Answer(400, "error")
    ELSE IF ~dbOK \/ runParam \notin DOMAIN runs THEN Answer(404, "error")
    ELSE IF ctx.exists /\ VerifyOwnership(runParam, ctx.userID) # 0
    THEN Answer(VerifyOwnership(runParam, ctx.userID), "error")
    ELSE Answer(200, "run")

\* RunsHandler.GetRunLogs
GetRunLogsHandler(ctx, runParam, dbOK, lokiOK) ==
    IF ~ParseOK(runParam) THEN Answer(400, "error")
    ELSE IF ctx.exists /\ (~dbOK \/ runParam \notin DOMAIN runs) THEN Answer(404, "error")
    ELSE IF ctx.exists /\ VerifyOwnership(runParam, ctx.userID) # 0
    THEN Answer(VerifyOwnership(runParam, ctx.userID), "error")
    ELSE IF ~lokiOK THEN Answer(500, "error")
    ELSE Answer(200, "logs")

\* RunsHandler.TriggerAIAnalysis
TriggerAIAnalysisHandler(ctx, runParam, dbOK) ==
    IF ~ParseOK(runParam) THEN Answer(400, "error")
    ELSE IF ~dbOK \/ runParam \notin DOMAIN runs THEN Answer(404, "error")
    ELSE IF VerifyOwnership(runParam, ctx.userID) # 0
    THEN Answer(VerifyOwnership(runParam, ctx.userID), "error")
    ELSE Answer(202, "queued")

\* The router: the middleware of the route's group, then the handler.
Serve(route, header, runParam, dbOK, lokiOK) ==
    LET ctx == IF Protected(route) THEN AuthMiddleware(header, api_tokens, dbOK)
               ELSE NoMiddleware
    IN  IF ctx.status # 0 THEN Answer(ctx.status, "error")
        ELSE IF route = "GET /runs/:id" THEN GetRunHandler(ctx, runParam, dbOK)
        ELSE IF route = "GET /runs/:id/logs"
        THEN GetRunLogsHandler(ctx, runParam, dbOK, lokiOK)
        ELSE TriggerAIAnalysisHandler(ctx, runParam, dbOK)

NoRequest ==
    [made |-> FALSE, route |-> "", header |-> "", run_id |-> "", dbOK |-> TRUE,
     lokiOK |-> TRUE, answer |-> Answer(0, "")]

\* One request to one of the three routes is served.
ApiRequest ==
    /\ \E route \in Routes, header \in ApiHeaders, runParam \in RunParams,
          dbOK \in BOOLEAN, lokiOK \in BOOLEAN :
        apiCall' = [made |-> TRUE, route |-> route, header |-> header,
                    run_id |-> runParam, dbOK |-> dbOK, lokiOK |-> lokiOK,
                    answer |-> Serve(route, header, runParam, dbOK, lokiOK)]
    /\ UNCHANGED apiRest

(***************************************************************************)
(* Specification.                                                          *)
(***************************************************************************)
\* No stream has been opened.
InitStreams ==
    /\ pc = [s \in Streams |-> "init"]
    /\ exitPath = [s \in Streams |-> "none"]
    /\ userID = [s \in Streams |-> NilUser]
    /\ ctxDone = [s \in Streams |-> FALSE]
    /\ logRun = [s \in Streams |-> Create("", AIStatusNone)]
    /\ warned = [s \in Streams |-> FALSE]
    /\ logBatch = [s \in Streams |-> <<>>]
    /\ recvd = [s \in Streams |-> <<>>]
    /\ completion = [s \in Streams |-> NullInt32]
    /\ tick = [s \in Streams |-> FALSE]
    /\ inRecv = [s \in Streams |-> FALSE]
    /\ authorization = [s \in Streams |-> <<>>]
    /\ firstFrame = [s \in Streams |-> "none"]
    /\ effectiveSettings = [s \in Streams |-> <<>>]
    /\ extraMetadata = [s \in Streams |-> FALSE]

\* The task queue is empty and the worker waits for a task.
InitWorker ==
    /\ queue = <<>>
    /\ taskLog = <<>>
    /\ wpc = "idle"
    /\ wtask = NoTask
    /\ werr = ""
    /\ wctxDone = FALSE
    /\ results = <<>>
    /\ finished = {}
    /\ modelCalls = {}
    /\ wblocked = FALSE

\* The tables and the LogStore hold nothing yet.
InitStore ==
    /\ runs = <<>>
    /\ loki = [r \in Streams |-> <<>>]
    /\ projects = {}
    /\ log_groups = {}

\* Each user has created one token.
InitTokens ==
    /\ api_tokens = {[id |-> "token:" \o u, user_id |-> u,
                      token_hash |-> HashToken(UserTokens[u])] : u \in Users}
    /\ issued = {[id |-> "token:" \o u, user_id |-> u, raw |-> UserTokens[u]] :
                    u \in Users}
    /\ authResult = AuthErr
    /\ authInput = <<>>

\* No GetOrCreate is under way outside the streams.
InitCallers ==
    /\ gpc = [k \in Callers |-> "done"]
    /\ gargs = [k \in Callers |->
                  [user_id |-> NilUser, project_name |-> "", group_name |-> ""]]
    /\ gproject = [k \in Callers |-> <<>>]
    /\ gret = [k \in Callers |-> NoError]

\* No UpdateStatus call has been made outside the streams.
InitFinalize == finalizeCall = NoCall

\* Nothing has been published on swiftlog:logs.
InitChannel == logsChannel = <<>>

\* No task has been handed to a worker of the shared queue.
InitDelivered == delivered = <<>>

\* No swiftlog run is under way.
InitCli ==
    /\ cliPc = "exited"
    /\ cmdExit = Int32(0)
    /\ pipe = [fd \in Fds |-> <<>>]
    /\ pipeClosed = [fd \in Fds |-> TRUE]
    /\ readerDone = [fd \in Fds |-> TRUE]
    /\ written = [fd \in Fds |-> <<>>]
    /\ sentFrames = <<>>
    /\ sendWarned = FALSE
    /\ cliExit = Int32(0)
    /\ inSend = [fd \in Fds |-> <<>>]

\* No request has been made to the REST API.
InitApi == apiCall = NoRequest

\* No entry is being marshalled.
InitMarshal ==
    /\ marshalArgs = [timestamp |-> 1, level |-> "STDOUT", content |-> "a"]
    /\ marshalled = <<>>

\* No prepareLogs call is under way.
InitPrepare ==
    /\ prepareArgs = [logs |-> <<>>, maxLines |-> 0, strategy |-> "tail"]
    /\ prepared = <<<<>>>>

\* No settings resolution is under way.
InitSettings ==
    /\ userSettings = <<>>
    /\ projectSettings = <<>>
    /\ resolved = <<>>
    /\ settingsPc = "returned"

\* No WebSocket request has been made.
InitHub ==
    /\ conn = [c \in HubClients |->
                 [state |-> "new", token |-> "", run_id |-> "", code |-> 0]]
    /\ clients = [r \in HubRuns |-> {}]
    /\ send = [c \in HubClients |-> <<>>]
    /\ closed = [c \in HubClients |-> FALSE]
    /\ broadcast = <<>>
    /\ received = [c \in HubClients |-> <<>>]
    /\ published = 0
    /\ closes = [c \in HubClients |-> 0]
    /\ arrivals = <<>>

Init ==
    /\ InitStreams
    /\ InitWorker
    /\ InitStore
    /\ InitTokens
    /\ InitHub
    /\ InitSettings
    /\ InitCallers
    /\ InitFinalize
    /\ InitChannel
    /\ InitPrepare
    /\ InitDelivered
    /\ InitCli
    /\ InitApi
    /\ InitMarshal

Next ==
    \/ \E s \in Streams : Reject(s)
    \/ \E s \in Streams : Open(s)
    \/ \E s \in Streams : SelectCtxDone(s)
    \/ \E s \in Streams : Tick(s)
    \/ \E s \in Streams : SelectDefault(s)
    \/ \E s \in Streams : SelectTicker(s)
    \/ \E s \in Streams : RecvEOF(s)
    \/ \E s \in Streams : RecvError(s)
    \/ \E s \in Streams : RecvLine(s)
    \/ \E s \in Streams : RecvCompletion(s)
    \/ \E s \in Streams : RecvMetadata(s)
    \/ WorkerShutdown
    \/ WorkerStop
    \/ WorkerDequeue
    \/ Consume
    \/ ConsumeNone
    \/ GetRun
    \/ SetProcessing
    \/ Analyze
    \/ SaveReport
    \/ MarkFailed
    \/ Notify

Spec == Init /\ [][Next]_vars

\* The steps of the goroutine that runs Worker.Run.
WorkerStep ==
    \/ WorkerStop
    \/ WorkerDequeue
    \/ Consume
    \/ ConsumeNone
    \/ GetRun
    \/ SetProcessing
    \/ Analyze
    \/ SaveReport
    \/ MarkFailed
    \/ Notify

\* The steps of the goroutine that serves stream s.
StreamStep(s) ==
    \/ Reject(s)
    \/ Open(s)
    \/ SelectCtxDone(s)
    \/ SelectDefault(s)
    \/ SelectTicker(s)
    \/ RecvEOF(s)
    \/ RecvError(s)
    \/ RecvLine(s)
    \/ RecvCompletion(s)
    \/ RecvMetadata(s)

\* The same system with the scheduling of the Go runtime: a goroutine that
\* can take a step eventually takes one.  A handler blocked in Recv
\* eventually gets a frame, io.EOF or an error, and a worker blocked in
\* BRPOP gets an element or the timeout.
LiveSpec ==
    /\ Init
    /\ [][Next]_vars
    /\ WF_vars(WorkerStep)
    /\ \A s \in Streams : WF_vars(StreamStep(s))

\* The WebSocket server, started on a database and a LogStore that hold
\* one run of each user, the first with two lines.
HubStore ==
    /\ projects = {ProjectRow(u, "default") : u \in Users}
    /\ log_groups = {GroupRow(ProjectRow(u, "default").id, "default") : u \in Users}
    /\ runs = [r \in HubRuns |->
                 UpdateStatus(
                     Create(GroupRow(ProjectRow(HubOwner[r], "default").id, "default").id,
                            AIStatusNone),
                     RunStatusCompleted, Int32(0))]
    /\ loki = [r \in HubRuns |->
                 IF r = "r1"
                 THEN <<Entry([timestamp |-> 1, level |-> "STDOUT", content |-> "a"]),
                        Entry([timestamp |-> 2, level |-> "STDERR", content |-> "a"])>>
                 ELSE <<>>]

HubInit ==
    /\ InitStreams
    /\ InitWorker
    /\ HubStore
    /\ InitTokens
    /\ InitHub
    /\ InitSettings
    /\ InitCallers
    /\ InitFinalize
    /\ InitChannel
    /\ InitPrepare
    /\ InitDelivered
    /\ InitCli
    /\ InitApi
    /\ InitMarshal

HubNext ==
    \/ \E c \in HubClients : Connect(c)
    \/ \E c \in HubClients : HubRegister(c)
    \/ \E c \in HubClients : HubUnregister(c)
    \/ SubscribeToRedis
    \/ HubBroadcast
    \/ \E c \in HubClients : WritePump(c)

HubSpec == HubInit /\ [][HubNext]_vars

\* GetEffectiveSettings called for a user and a project whose rows are any
\* of the rows the two tables can hold.
SettingsInit ==
    /\ InitStreams
    /\ InitWorker
    /\ InitStore
    /\ InitTokens
    /\ InitHub
    /\ InitCallers
    /\ userSettings \in Maybe(UserSettingsRows)
    /\ projectSettings \in Maybe(ProjectSettingsRows)
    /\ resolved = <<>>
    /\ settingsPc = "call"
    /\ InitFinalize
    /\ InitChannel
    /\ InitPrepare
    /\ InitDelivered
    /\ InitCli
    /\ InitApi
    /\ InitMarshal

SettingsNext == ResolveSettings

SettingsSpec == SettingsInit /\ [][SettingsNext]_vars

\* The token service on an empty api_tokens table.
TokenInit ==
    /\ InitStreams
    /\ InitWorker
    /\ InitStore
    /\ InitHub
    /\ InitSettings
    /\ InitCallers
    /\ api_tokens = {}
    /\ issued = {}
    /\ authResult = AuthErr
    /\ authInput = <<>>
    /\ InitFinalize
    /\ InitChannel
    /\ InitPrepare
    /\ InitDelivered
    /\ InitCli
    /\ InitApi
    /\ InitMarshal

TokenNext ==
    \/ \E u \in Users : CreateToken(u)
    \/ RevokeToken
    \/ Authenticate

TokenSpec == TokenInit /\ [][TokenNext]_vars

\* Two callers run GetOrCreate of a project and then of a group on empty
\* tables, each with a user and names of its own choice.
CallersInit ==
    /\ InitStreams
    /\ InitWorker
    /\ InitStore
    /\ InitTokens
    /\ InitHub
    /\ InitSettings
    /\ gpc = [k \in Callers |-> "project_get"]
    /\ gargs \in [Callers -> CallerArgs]
    /\ gproject = [k \in Callers |-> <<>>]
    /\ gret = [k \in Callers |-> NoError]
    /\ InitFinalize
    /\ InitChannel
    /\ InitPrepare
    /\ InitDelivered
    /\ InitCli
    /\ InitApi
    /\ InitMarshal

CallersNext ==
    \/ \E k \in Callers : ProjectGet(k)
    \/ \E k \in Callers : ProjectCreate(k)
    \/ \E k \in Callers : GroupGet(k)
    \/ \E k \in Callers : GroupCreate(k)

CallersSpec == CallersInit /\ [][CallersNext]_vars

\* UpdateStatus called on a table that holds two runs in any of the states
\* a run can have.
FinalizeInit ==
    /\ InitStreams
    /\ InitWorker
    /\ InitTokens
    /\ InitHub
    /\ InitSettings
    /\ InitCallers
    /\ InitFinalize
    /\ InitChannel
    /\ InitPrepare
    /\ InitDelivered
    /\ InitCli
    /\ InitApi
    /\ InitMarshal
    /\ runs \in [RunIds -> RunRows]
    /\ loki = [r \in Streams |-> <<>>]
    /\ projects = {}
    /\ log_groups = {}

FinalizeNext == FinalizeRun

\* prepareLogs called with any list of lines, any maxLines from 0 and any
\* strategy.
PrepareInit ==
    /\ InitStreams
    /\ InitWorker
    /\ InitStore
    /\ InitTokens
    /\ InitHub
    /\ InitSettings
    /\ InitCallers
    /\ InitFinalize
    /\ InitChannel
    /\ prepareArgs \in [logs : LogLists, maxLines : 0..MaxTruncate, strategy : Strategies]
    /\ prepared = <<>>
    /\ InitDelivered
    /\ InitCli
    /\ InitApi
    /\ InitMarshal

PrepareNext == PrepareLogs

PrepareSpec == PrepareInit /\ [][PrepareNext]_vars

\* MarshalJSON is called on the entry of one Line frame.
MarshalInit ==
    /\ InitStreams
    /\ InitWorker
    /\ InitStore
    /\ InitTokens
    /\ InitHub
    /\ InitSettings
    /\ InitCallers
    /\ InitFinalize
    /\ InitChannel
    /\ InitPrepare
    /\ InitDelivered
    /\ InitCli
    /\ InitApi
    /\ marshalArgs \in [timestamp : Timestamps, level : Levels, content : MarshalContents]
    /\ marshalled = <<>>

MarshalNext == MarshalEntry

MarshalSpec == MarshalInit /\ [][MarshalNext]_vars

\* Producers and two workers on an empty queue.
QueueInit == Init

QueueNext ==
    \/ PublishAITask
    \/ \E w \in QueueWorkers : ConsumeAITask(w)

QueueSpec == QueueInit /\ [][QueueNext]_vars

\* swiftlog run after StartStream returned the session and command.Start()
\* started the wrapped command and the two streamOutput goroutines.
CliInit ==
    /\ InitStreams
    /\ InitWorker
    /\ InitStore
    /\ InitTokens
    /\ InitHub
    /\ InitSettings
    /\ InitCallers
    /\ InitFinalize
    /\ InitChannel
    /\ InitPrepare
    /\ InitDelivered
    /\ cliPc = "wait"
    /\ cmdExit = NullInt32
    /\ pipe = [fd \in Fds |-> <<>>]
    /\ pipeClosed = [fd \in Fds |-> FALSE]
    /\ readerDone = [fd \in Fds |-> FALSE]
    /\ written = [fd \in Fds |-> <<>>]
    /\ sentFrames = <<>>
    /\ sendWarned = FALSE
    /\ cliExit = NullInt32
    /\ inSend = [fd \in Fds |-> <<>>]
    /\ InitApi
    /\ InitMarshal

CliNext ==
    \/ \E fd \in Fds : CmdWrite(fd)
    \/ CmdExit
    \/ \E fd \in Fds : ScanLine(fd)
    \/ \E fd \in Fds : StreamSend(fd)
    \/ \E fd \in Fds : ScanEnd(fd)
    \/ CommandWait
    \/ SendCompletion
    \/ CliExit

CliSpec == CliInit /\ [][CliNext]_vars

\* The REST API on the database of HubStore: one run of each user.
ApiInit == HubInit

ApiNext == ApiRequest

ApiSpec == ApiInit /\ [][ApiNext]_vars

FinalizeSpec == FinalizeInit /\ [][FinalizeNext]_vars


(***************************************************************************)
(* Properties.                                                             *)
(***************************************************************************)
TerminalStatuses == {RunStatusCompleted, RunStatusFailed, RunStatusAborted}

\* The entries of the Line frames stream s received, in order.
Entries(s) == [i \in 1..Len(recvd[s]) |-> Entry(recvd[s][i])]

\* How often e occurs in the sequence q.
Count(q, e) == Cardinality({i \in 1..Len(q) : q[i] = e})

\* q without the repetitions of an element that occurred before.
RECURSIVE DropRepeats(_)
DropRepeats(q) ==
    IF q = <<>> THEN <<>>
    ELSE LET front == SubSeq(q, 1, Len(q) - 1)
             last == q[Len(q)]
         IN  IF Count(front, last) > 0 THEN DropRepeats(front)
             ELSE Append(DropRepeats(front), last)

\* C1: once the handler of a stream has returned, the run the stream
\* created is completed, failed or aborted.
C1_TerminalWhenHandlerEnded ==
    \A s \in Streams :
        (pc[s] = "done" /\ RunIdOf(s) \in DOMAIN runs)
            => runs[RunIdOf(s)].status \in TerminalStatuses

\* C2: when the handler that received Completion{c} has returned, the run
\* has exit_code = c and status completed if c = 0, failed otherwise.
C2_CompletionRecorded ==
    \A s \in Streams :
        (pc[s] = "done" /\ completion[s].Valid)
            => /\ runs[RunIdOf(s)].exit_code = completion[s]
               /\ runs[RunIdOf(s)].status = RunStatusFor(completion[s].Int32)

\* C3: a stream that received at least one Line and ended without a
\* Completion, by the client closing or half-closing it, leaves its run
\* aborted, with exit_code NULL and end_time set.
C3_AbortedOnDisconnect ==
    \A s \in Streams :
        (/\ pc[s] = "done"
         /\ exitPath[s] \in {"eof", "recv_error"}
         /\ Len(recvd[s]) >= 1)
            => /\ runs[RunIdOf(s)].status = RunStatusAborted
               /\ ~runs[RunIdOf(s)].exit_code.Valid
               /\ runs[RunIdOf(s)].end_time # NULL

C5_StatusAgreesWithFields ==
    \A r \in DOMAIN runs :
        LET row == runs[r]
            ended == row.end_time # NULL
        IN  /\ row.status = RunStatusRunning <=> (~ended /\ ~row.exit_code.Valid)
            /\ row.status = RunStatusCompleted
                  <=> (row.exit_code.Valid /\ row.exit_code.Int32 = 0 /\ ended)
            /\ row.status = RunStatusFailed
                  <=> (row.exit_code.Valid /\ row.exit_code.Int32 # 0 /\ ended)
            /\ row.status = RunStatusAborted => (ended /\ ~row.exit_code.Valid)

\* C5 witness: a run finalized as failed with its non-zero exit code.
C5_Witness ==
    \E r \in DOMAIN runs :
        runs[r].status = RunStatusFailed /\ runs[r].exit_code.Int32 # 0

\* C6: when the handler has returned, every Line frame it accepted is in
\* the LogStore at least as often as it was received.
C6_AcceptedLinesAppended ==
    \A s \in Streams :
        pc[s] = "done" =>
            \A i \in 1..Len(recvd[s]) :
                Count(loki[RunIdOf(s)], Entries(s)[i]) >= Count(Entries(s), Entries(s)[i])

\* C7: when the handler has returned, the lines QueryLogs returns for the
\* run are the lines received on the stream, in the order received, up to
\* repeated lines.
C7_QueryEqualsInput ==
    \A s \in Streams :
        pc[s] = "done" =>
            DropRepeats(QueryLogs(loki, RunIdOf(s))) = DropRepeats(Entries(s))

\* The ai_status changes C8 permits.
AIEdges ==
    {<<AIStatusNone, AIStatusProcessing>>, <<AIStatusPending, AIStatusProcessing>>,
     <<AIStatusProcessing, AIStatusCompleted>>, <<AIStatusProcessing, AIStatusFailed>>,
     <<AIStatusCompleted, AIStatusProcessing>>, <<AIStatusFailed, AIStatusProcessing>>}

AIStepsWithin(edges) ==
    \A r \in DOMAIN runs :
        (r \in DOMAIN runs' /\ runs'[r].ai_status # runs[r].ai_status)
            => <<runs[r].ai_status, runs'[r].ai_status>> \in edges

\* C8 as stated: ai_status changes only along {none, pending} -> processing
\* -> {completed, failed}, or back to processing from completed or failed.
C8_AIStatusEdges == [][AIStepsWithin(AIEdges)]_vars

\* C8 amended: the same, and a run may also go from pending to failed
\* directly, when the worker fails before it has written processing.
C8_AIStatusEdgesOrEarlyFailure ==
    [][AIStepsWithin(AIEdges \cup {<<AIStatusPending, AIStatusFailed>>})]_vars

\* C8 witness: a run went pending -> processing -> completed.
C8_Witness ==
    \E r \in DOMAIN runs :
        runs[r].ai_status = AIStatusCompleted /\ runs[r].ai_report = ModelText

\* C9: when the worker is done with a task, the run is completed with the
\* model text as report, or failed with an error message as report, and a
\* result with that status was published.
C9_TaskEndsCompletedOrFailed ==
    \A r \in finished :
        /\ r \in DOMAIN runs
        /\ \/ runs[r].ai_status = AIStatusCompleted /\ runs[r].ai_report = ModelText
           \/ /\ runs[r].ai_status = AIStatusFailed
              /\ \E err \in ProcessRunErrors \cup {"failed to get run"} :
                    runs[r].ai_report = ErrorReport(err)
        /\ \E i \in 1..Len(results) :
              results[i].run_id = r /\ results[i].status = runs[r].ai_status

\* The stream that created run r.
StreamOf(r) == CHOOSE s \in Streams : RunIdOf(s) = r

\* C10: a task is enqueued for a run if and only if its stream delivered a
\* Completion and the run was created pending; the task is the only one of
\* its run, carries the run id and the user of the stream, and is enqueued
\* after the final flush and the finalizing UPDATE succeeded.  The "if"
\* direction is read once the handler has returned.
C10_TaskOnCompletion ==
    /\ \A i \in 1..Len(taskLog) :
          LET task == taskLog[i]
              s == StreamOf(task.run_id)
          IN  /\ task.run_id \in DOMAIN runs
              /\ completion[s].Valid
              /\ logRun[s].ai_status = AIStatusPending
              /\ logBatch[s] = <<>>
              /\ runs[task.run_id].status = RunStatusFor(completion[s].Int32)
              /\ task.user_id = userID[s]
              /\ \A j \in 1..Len(taskLog) : taskLog[j].run_id = task.run_id => j = i
    /\ \A s \in Streams :
          (/\ pc[s] = "done"
           /\ completion[s].Valid
           /\ logRun[s].ai_status = AIStatusPending)
              => \E i \in 1..Len(taskLog) : taskLog[i].run_id = RunIdOf(s)

\* C11: a run is created with ai_status pending exactly when the effective
\* settings of its stream have both ai_enabled and ai_auto_analyze, and with
\* ai_status none in every other case.
C11_InitialAIStatusFromSettings ==
    \A s \in Streams :
        RunIdOf(s) \in DOMAIN runs =>
            LET effective == effectiveSettings[s]
                auto == /\ Len(effective) # 0
                        /\ effective[1].AIEnabled
                        /\ effective[1].AIAutoAnalyze
            IN  logRun[s].ai_status = IF auto THEN AIStatusPending ELSE AIStatusNone

\* C12: a stream whose first frame is not a Metadata frame is answered with
\* InvalidArgument and closed, and no run is created for it.
C12_FirstFrameNotMetadata ==
    \A s \in Streams :
        firstFrame[s] \in FirstFrames \ {"metadata"} =>
            /\ pc[s] = "done"
            /\ Code(exitPath[s]) = "InvalidArgument"
            /\ RunIdOf(s) \notin DOMAIN runs

\* C12 witness: a stream whose first frame was a Line has been answered.
C12_Witness ==
    \E s \in Streams : firstFrame[s] = "line" /\ exitPath[s] = "no_metadata"

\* C13: a stream that received a second Metadata frame is answered with
\* InvalidArgument and closed instead of going on.
C13_SecondMetadataRejected ==
    \A s \in Streams :
        extraMetadata[s] => pc[s] = "done" /\ Code(exitPath[s]) = "InvalidArgument"

\* The authorization values that carry a token CreateToken returned and
\* that is still stored, bare or behind "Bearer ".
ValidAuthorizations ==
    UNION {{<<tok.raw>>, <<"Bearer " \o tok.raw>>} :
             tok \in {i \in issued : \E row \in api_tokens : row.id = i.id}}

\* C14: the step that answers a stream opened with a missing or invalid
\* token answers Unauthenticated and changes no project, group, run, log
\* line or task.
C14_UnauthenticatedNoSideEffects ==
    [][\A s \in Streams :
          (/\ pc[s] = "init"
           /\ pc'[s] # "init"
           /\ authorization'[s] \notin ValidAuthorizations)
              => /\ pc'[s] = "done"
                 /\ Code(exitPath'[s]) = "Unauthenticated"
                 /\ UNCHANGED <<projects, log_groups, runs, loki, queue, taskLog>>]_vars

\* C14 witness: a stream with a token that no row matches was answered.
C14_Witness ==
    \E s \in Streams :
        /\ Len(authorization[s]) = 1
        /\ authorization[s][1] \in RawTokens
        /\ authorization[s] \notin ValidAuthorizations
        /\ exitPath[s] = "unauthenticated"

\* The user that owns the project containing run r: r.group.project.user_id.
OwnerOfRun(r) ==
    LET group == CHOOSE g \in log_groups : g.id = runs[r].group_id
        project == CHOOSE pr \in projects : pr.id = group.project_id
    IN  project.user_id

\* The client presented a stored token of user u.
HasTokenOf(c, u) ==
    \E i \in issued :
        /\ i.raw = conn[c].token
        /\ i.user_id = u
        /\ \E row \in api_tokens : row.id = i.id

\* C15: a client whose connection was upgraded, that is registered with the
\* hub, or that was sent a message, asked for an existing run and presented
\* a valid token of the user that owns the project of that run; the
\* messages it is sent are messages of that run.
C15_OnlyOwnerSubscribes ==
    \A c \in HubClients :
        (\/ conn[c].state \in {"upgraded", "registered"}
         \/ \E r \in HubRuns : c \in clients[r]
         \/ send[c] # <<>>
         \/ received[c] # <<>>)
            => /\ conn[c].run_id \in DOMAIN runs
               /\ HasTokenOf(c, OwnerOfRun(conn[c].run_id))
               /\ \A r \in HubRuns : c \in clients[r] => r = conn[c].run_id
               /\ \A k \in 1..Len(received[c]) : received[c][k].RunID = conn[c].run_id

\* C15 witness: the owner of a run is registered for it and was sent one of
\* its messages, while the other user was refused for the same run.
C15_Witness ==
    \E c, d \in HubClients :
        /\ conn[c].state = "registered"
        /\ received[c] # <<>>
        /\ conn[d].state = "refused"
        /\ conn[d].run_id = conn[c].run_id
        /\ conn[d].code = 403

\* C16: what a subscriber is sent starts with the lines the LogStore holds
\* for its run, in the order of the query; live lines come after them.
C16_SnapshotThenLive ==
    \A c \in HubClients :
        received[c] # <<>> =>
            LET snapshot == QueryLogs(loki, conn[c].run_id)
            IN  /\ Len(received[c]) >= Len(snapshot)
                /\ \A k \in 1..Len(snapshot) :
                      /\ received[c][k].Timestamp = snapshot[k].Timestamp
                      /\ FormatLine(received[c][k].Level, received[c][k].Content)
                            = snapshot[k].Line

\* C17: the step that takes a message from the broadcast channel is taken
\* whatever the state of the send channels; it leaves in each send channel
\* at most SendCap messages, removes from the table and closes every client
\* of the run whose channel is full, and appends the message to the channel
\* of every other client of the run.
C17_FullSubscriberDropped ==
    /\ [](broadcast # <<>> => ENABLED HubBroadcast)
    /\ [][(broadcast # <<>> /\ broadcast' = Tail(broadcast)) =>
             LET message == Head(broadcast)
             IN  \A c \in clients[message.RunID] :
                     IF Len(send[c]) >= SendCap
                     THEN /\ c \notin clients'[message.RunID]
                          /\ closed'[c]
                          /\ send'[c] = send[c]
                     ELSE /\ c \in clients'[message.RunID]
                          /\ ~closed'[c]
                          /\ send'[c] = Append(send[c], message.Message)]_vars

\* C17 witness: of two subscribers of one run, one was dropped with a full
\* channel and the other is registered and was sent the message.
C17_Witness ==
    \E c, d \in HubClients :
        /\ conn[c].run_id = conn[d].run_id
        /\ closed[c]
        /\ conn[c].state = "registered"
        /\ Len(send[c]) = SendCap
        /\ c \notin clients[conn[c].run_id]
        /\ d \in clients[conn[d].run_id]
        /\ Len(received[d]) + Len(send[d]) > Len(received[c]) + Len(send[c])

\* C18: each field of the resolved settings is the project's value when the
\* project's field is not null and the user's value otherwise, for the nine
\* settings fields of the data model.
C18_SettingsOverlay ==
    (settingsPc = "returned" /\ Len(userSettings) # 0) =>
        /\ Len(resolved) # 0
        /\ LET user == userSettings[1]
               Expected(field) ==
                   IF Len(projectSettings) # 0 /\ projectSettings[1][field].Valid
                   THEN projectSettings[1][field].V
                   ELSE user[field]
           IN  /\ resolved[1].AIEnabled = Expected("ai_enabled")
               /\ resolved[1].AIBaseURL = Expected("ai_base_url")
               /\ resolved[1].AIModel = Expected("ai_model")
               /\ resolved[1].AIMaxTokens = Expected("ai_max_tokens")
               /\ resolved[1].AIAutoAnalyze = Expected("ai_auto_analyze")
               /\ resolved[1].AIMaxLogLines = Expected("ai_max_log_lines")
               /\ resolved[1].AILogTruncateStrategy = Expected("ai_log_truncate_strategy")
               /\ resolved[1].AISystemPrompt = Expected("ai_system_prompt")
               /\ resolved[1].AIMaxConcurrent = Expected("ai_max_concurrent")

\* C19: authenticating with a raw token that CreateToken returned and that
\* is still stored yields the user it was created for, presented bare and
\* presented as "Bearer <token>".
C19_TokenRoundTrip ==
    \A i \in issued :
        (\E row \in api_tokens : row.id = i.id) =>
            /\ authenticateRequest(<<i.raw>>, api_tokens, TRUE) = AuthOK(i.user_id)
            /\ authenticateRequest(<<"Bearer " \o i.raw>>, api_tokens, TRUE)
                  = AuthOK(i.user_id)

\* C19 witness: a request that presented a stored token behind "Bearer "
\* was authenticated as its user, while another token has been revoked.
C19_Witness ==
    /\ \E i \in issued :
          /\ \E row \in api_tokens : row.id = i.id
          /\ authInput = <<"Bearer " \o i.raw>>
          /\ authResult = AuthOK(i.user_id)
    /\ \E i \in issued : \A row \in api_tokens : row.id # i.id

\* C20: every finished caller succeeded, callers with the same user and
\* project name got the same project and, in it, the same group for the
\* same group name, and no pair has two rows.
C20_GetOrCreateIdempotent ==
    /\ \A k \in Callers : gpc[k] = "done" => ~gret[k].err
    /\ \A k1, k2 \in Callers :
          (/\ gpc[k1] = "done" /\ gpc[k2] = "done"
           /\ gargs[k1] = gargs[k2])
              => gproject[k1] = gproject[k2] /\ gret[k1] = gret[k2]
    /\ \A p1, p2 \in projects :
          (p1.user_id = p2.user_id /\ p1.name = p2.name) => p1 = p2
    /\ \A g1, g2 \in log_groups :
          (g1.project_id = g2.project_id /\ g1.name = g2.name) => g1 = g2

\* C21: a call of UpdateStatus on a run whose status is not running returns
\* an error and leaves the status, the exit code and the end time of the
\* run as they were.
C21_FinalizeNonRunningRejected ==
    (finalizeCall.made /\ finalizeCall.prior.status # RunStatusRunning)
        => /\ finalizeCall.err
           /\ runs[finalizeCall.id].status = finalizeCall.prior.status
           /\ runs[finalizeCall.id].exit_code = finalizeCall.prior.exit_code
           /\ runs[finalizeCall.id].end_time = finalizeCall.prior.end_time

\* The last PushLogs of stream s failed: flushBatch returned its error, or
\* the handler ignored it and left with the batch it could not push.
AppendFailed(s) ==
    \/ exitPath[s] \in {"ticker_flush_error", "batch_flush_error", "final_flush_error"}
    \/ (exitPath[s] \in {"eof", "cancelled", "recv_error"} /\ logBatch[s] # <<>>)

\* C22: when the append of a batch to the LogStore has failed for good, the
\* run of the stream is aborted once the handler has returned: it is not
\* completed, failed or still running.
C22_AbortedWhenAppendFails ==
    \A s \in Streams :
        (pc[s] = "done" /\ AppendFailed(s))
            => /\ RunIdOf(s) \in DOMAIN runs
               /\ runs[RunIdOf(s)].status = RunStatusAborted

\* C23: while a stream is open its buffer holds fewer than BatchSize lines,
\* a full buffer being flushed at once, and whenever the ticker has fired
\* on a non-empty buffer the flush of the ticker is the step the handler
\* can take, also when it waits for the client's next frame.
C23_FlushOnEitherTrigger ==
    \A s \in Streams :
        pc[s] = "open"
            => /\ Len(logBatch[s]) < BatchSize
               /\ (tick[s] /\ logBatch[s] # <<>>) => ENABLED SelectTicker(s)

\* The messages of one type published on swiftlog:logs for run r, in order.
RECURSIVE EventsOf(_, _, _)
EventsOf(channel, type, r) ==
    IF channel = <<>> THEN <<>>
    ELSE IF Head(channel).type = type /\ Head(channel).run_id = r
         THEN <<Head(channel)>> \o EventsOf(Tail(channel), type, r)
         ELSE EventsOf(Tail(channel), type, r)

\* C24: the log events published for the run of a stream are the Line
\* frames the stream has received, each with the run id, the timestamp, the
\* level and the content of its frame, in the order of reception.
C24_LinesPublishedInOrder ==
    \A s \in Streams :
        EventsOf(logsChannel, "log", RunIdOf(s))
            = [i \in 1..Len(recvd[s]) |->
                 LogMessage(RunIdOf(s), recvd[s][i].timestamp, recvd[s][i].level,
                            recvd[s][i].content)]

\* C25: once the handler has set the run of its stream to completed, failed
\* or aborted, a run_update event with that status and exit code has been
\* published for the run.
C25_RunUpdatePublished ==
    \A s \in Streams :
        (/\ pc[s] = "done"
         /\ RunIdOf(s) \in DOMAIN runs
         /\ runs[RunIdOf(s)].status \in TerminalStatuses)
            => \E i \in 1..Len(logsChannel) :
                 logsChannel[i] = RunUpdateMessage(RunIdOf(s), runs[RunIdOf(s)].status,
                                                   runs[RunIdOf(s)].exit_code)

\* The lines of a returned text that are not empty.
RECURSIVE NonBlank(_)
NonBlank(lines) ==
    IF lines = <<>> THEN <<>>
    ELSE IF Head(lines) = "" THEN NonBlank(Tail(lines))
         ELSE <<Head(lines)>> \o NonBlank(Tail(lines))

\* What truncation is to keep of logs for maxLines = m under a strategy.
Truncated(logs, m, strategy) ==
    LET n == Len(logs)
        marker == <<Marker(n - m)>>
        first == m \div 5 + m \div 5 + ((m % 5) * 2) \div 5
    IN  CASE strategy = "head" -> SubSeq(logs, 1, m) \o marker
          [] strategy = "smart" ->
                SubSeq(logs, 1, first) \o marker \o SubSeq(logs, n - (m - first) + 1, n)
          [] OTHER -> marker \o SubSeq(logs, n - m + 1, n)

\* C26: for a list of more than maxLines lines, the text prepareLogs returns
\* holds, apart from empty lines, maxLines lines of the list in their order
\* and one marker with the number of omitted lines: the first maxLines and
\* the marker for head, the marker and the last maxLines for tail and for an
\* unknown strategy, the first floor(0.4 * maxLines), the marker and the last
\* maxLines - floor(0.4 * maxLines) for smart.
C26_TruncationKeepsMaxLines ==
    (prepared # <<>> /\ Len(prepareArgs.logs) > prepareArgs.maxLines)
        => NonBlank(prepared[1])
             = Truncated(prepareArgs.logs, prepareArgs.maxLines, prepareArgs.strategy)

C26_Witness ==
    /\ prepared # <<>>
    /\ prepareArgs.strategy = "smart"
    /\ prepareArgs.maxLines = 3
    /\ prepareArgs.logs = <<"a", "b", "a", "b">>
    /\ prepared[1] = <<"a", "", "... [1 lines omitted] ...", "", "a", "b">>

\* C27: the tasks the workers have been handed are, in the order of their
\* delivery, the first tasks enqueued in the order of their enqueuing, and
\* the tasks still queued are the others: each enqueued task is handed out
\* at most once, to one worker.
C27_QueueFifoSingleDelivery ==
    /\ Len(delivered) + Len(queue) = Len(taskLog)
    /\ \A i \in 1..Len(delivered) : delivered[i].task = taskLog[i]
    /\ \A i \in 1..Len(queue) : queue[i] = taskLog[Len(taskLog) + 1 - i]

C27_Witness ==
    /\ Len(delivered) = 2
    /\ delivered[1].worker # delivered[2].worker
    /\ delivered[1].task # delivered[2].task
    /\ queue # <<>>

\* The contents of the Line frames of one level among frames, in order.
RECURSIVE LinesOf(_, _)
LinesOf(frames, fd) ==
    IF frames = <<>> THEN <<>>
    ELSE IF Head(frames).type = "line" /\ Head(frames).level = fd
         THEN <<Head(frames).content>> \o LinesOf(Tail(frames), fd)
         ELSE LinesOf(Tail(frames), fd)

\* C28: once the CLI has sent the Completion frame, that frame is the last
\* one it sent, and, unless a Send of a line failed with a warning, the
\* Line frames sent for stdout and for stderr are the lines the command
\* wrote to each before it exited.
C28_AllLinesBeforeCompletion ==
    \A i \in 1..Len(sentFrames) :
        sentFrames[i].type = "completion"
            => /\ i = Len(sentFrames)
               /\ ~sendWarned => \A fd \in Fds : LinesOf(sentFrames, fd) = written[fd]

\* C29: when the CLI process has exited after the wrapped command ended
\* with exit code c, it has sent Completion{c} and its own exit code is c.
C29_ExitCodePreserved ==
    cliPc = "exited"
        => /\ cliExit = cmdExit
           /\ \E i \in 1..Len(sentFrames) :
                 sentFrames[i] = CompletionFrame(cmdExit.Int32)

\* C30: a request that was answered with the metadata or with the log
\* lines of a run carried, bare or after "Bearer ", a valid token of the
\* user who owns the project of the run.
C30_RunReadOnlyByOwner ==
    (/\ apiCall.made
     /\ apiCall.run_id \in DOMAIN runs
     /\ apiCall.answer.body \in {"run", "logs"})
        => LET auth == ValidateToken(api_tokens, TrimBearer(apiCall.header), TRUE)
           IN  /\ apiCall.header # ""
               /\ auth.ok
               /\ auth.userID = HubOwner[apiCall.run_id]

\* C32: the resolved API key is the project's key when that key is non-empty
\* and the user's key otherwise; an absent or empty project key never
\* replaces a non-empty user key.
C32_ResolvedAPIKey ==
    (settingsPc = "returned" /\ Len(userSettings) # 0) =>
        /\ Len(resolved) # 0
        /\ LET userKey == userSettings[1].ai_api_key
               projectKey ==
                   IF Len(projectSettings) # 0
                   THEN projectSettings[1].ai_api_key
                   ELSE NilString
               nonEmpty(k) == k.Valid /\ k.V # ""
           IN  /\ resolved[1].AIAPIKey =
                      IF nonEmpty(projectKey) THEN projectKey.V
                      ELSE IF userKey.Valid THEN userKey.V
                      ELSE ""
               /\ (nonEmpty(userKey) /\ ~nonEmpty(projectKey)) =>
                      resolved[1].AIAPIKey = userKey.V

\* A project row without a key was merged over a user row that has one.
C32_Witness ==
    /\ settingsPc = "returned"
    /\ Len(userSettings) # 0
    /\ Len(projectSettings) # 0
    /\ ~projectSettings[1].ai_api_key.Valid
    /\ userSettings[1].ai_api_key = Ptr("sk-user")
    /\ resolved[1].AIAPIKey = "sk-user"

\* The external model was called only after the run was loaded, with
\* settings that have ai_enabled and a non-empty API key, and with at least
\* one line of the run from the LogStore.
CallOnlyWhenReady ==
    \A c \in modelCalls :
        /\ c.run_id \in DOMAIN runs
        /\ c.AIEnabled
        /\ c.AIAPIKey # ""
        /\ c.lines > 0

\* The errors processRunByID can return before the model is called.
BeforeCallErrors ==
    {"failed to get run", "failed to update status", "failed to get group",
     "failed to get effective settings",
     "AI analysis is disabled for this user/project",
     "AI API key not configured", "failed to fetch logs", "no logs found for run"}

\* C31: the external model is called only if the run exists, the effective
\* settings have ai_enabled and a non-empty API key and the LogStore returns
\* at least one line; in every other case the run ends with ai_status failed
\* and a message naming the cause, and no model call is made.
C31_ModelCalledOnlyWhenReady ==
    /\ CallOnlyWhenReady
    /\ (wpc = "notify" /\ werr \in BeforeCallErrors /\ wtask.run_id \in DOMAIN runs) =>
           /\ runs[wtask.run_id].ai_status = AIStatusFailed
           /\ runs[wtask.run_id].ai_report = ErrorReport(werr)

\* C33: a subscriber attached to run R is only ever sent events whose run_id
\* is R: every payload on its send queue, and every payload written to its
\* connection, names the run of its connection.
C33_OnlyEventsOfOwnRun ==
    \A c \in HubClients :
        /\ \A i \in 1..Len(send[c]) : send[c][i].RunID = conn[c].run_id
        /\ \A i \in 1..Len(received[c]) : received[c][i].RunID = conn[c].run_id

\* Both runs have a subscriber, events of both runs arrived, and the
\* subscriber of r1 was sent one.
C33_Witness ==
    /\ clients["r1"] # {}
    /\ clients["r2"] # {}
    /\ \E i, j \in 1..Len(arrivals) :
          arrivals[i].RunID = "r1" /\ arrivals[j].RunID = "r2"
    /\ \E c \in clients["r1"] : Len(send[c]) + Len(received[c]) > 0
    /\ broadcast = <<>>

\* a can be obtained from b by leaving elements out.
RECURSIVE IsSubsequence(_, _)
IsSubsequence(a, b) ==
    IF a = <<>> THEN TRUE
    ELSE IF b = <<>> THEN FALSE
    ELSE IF Head(a) = Head(b) THEN IsSubsequence(Tail(a), Tail(b))
    ELSE IsSubsequence(a, Tail(b))

\* The events placed on the send queue of c so far, in the order in which
\* they were placed: those already written and those still queued.
Placed(c) == received[c] \o send[c]

\* C34: for a single subscriber, the live events of its run are placed on its
\* queue in the order in which they arrived from the EventBus.
C34_EventsInArrivalOrder ==
    \A c \in HubClients : IsSubsequence(Placed(c), arrivals)

\* A subscriber was sent two different events of its run.
C34_Witness ==
    \E c \in HubClients :
        /\ Len(Placed(c)) >= 2
        /\ Placed(c)[1] # Placed(c)[2]
        /\ Placed(c) = SubSeq(arrivals, 1, 2)

\* C39: under every interleaving of register, unregister, broadcast and
\* eviction of a slow subscriber, the hub closes the send queue of each
\* subscriber at most once and no step sends on a queue it has closed.
C39_CloseOnceNoSendAfterClose ==
    /\ [](\A c \in HubClients : closes[c] <= 1)
    /\ [][\A c \in HubClients : Len(send'[c]) > Len(send[c]) => ~closed[c]]_vars

\* One subscriber was evicted by a broadcast and is still connected, another
\* one was closed by its unregistration.
C39_Witness ==
    \E c, d \in HubClients :
        /\ conn[c].state = "registered" /\ closed[c] /\ closes[c] = 1
        /\ conn[d].state = "gone" /\ closed[d] /\ closes[d] = 1

\* C35: after shutdown cancels the worker's context, a worker blocked in
\* ConsumeAITask is released, its loop terminates, and it starts processing
\* no further task.
C35_ShutdownStopsWorker ==
    /\ (wblocked ~> wpc = "stopped")
    /\ [][wblocked => (wpc' = wpc \/ wpc' \in {"idle", "stopped"})]_vars

\* After the cancellation the loop of the worker terminates.
WorkerLoopTerminates == wctxDone ~> wpc = "stopped"

\* C36: whenever the status of a run is completed or failed, every Line
\* frame received on its stream before the Completion frame has been
\* appended to the LogStore, in the order received.
C36_TerminalRunHasAllLines ==
    \A s \in Streams :
        (/\ RunIdOf(s) \in DOMAIN runs
         /\ runs[RunIdOf(s)].status \in {RunStatusCompleted, RunStatusFailed})
            => loki[RunIdOf(s)] = Entries(s)

\* A run was finalized as failed after MaxLines lines were received on its
\* stream and all of them are in the LogStore.
C36_Witness ==
    \E s \in Streams :
        /\ RunIdOf(s) \in DOMAIN runs
        /\ runs[RunIdOf(s)].status = RunStatusFailed
        /\ Len(recvd[s]) = MaxLines
        /\ loki[RunIdOf(s)] = Entries(s)

\* C37: every run created with ai_status pending eventually reaches
\* ai_status completed or failed, also when its stream ends without a
\* Completion frame or when the enqueue of its task fails.  A run whose
\* worker was shut down is not held against the claim.
C37_PendingEventuallySettled ==
    \A s \in Streams :
        (/\ RunIdOf(s) \in DOMAIN runs
         /\ logRun[s].ai_status = AIStatusPending
         /\ runs[RunIdOf(s)].ai_status = AIStatusPending)
            ~> \/ /\ RunIdOf(s) \in DOMAIN runs
                  /\ runs[RunIdOf(s)].ai_status \in {AIStatusCompleted, AIStatusFailed}
               \/ wctxDone

\* C40: at most one goroutine of the CLI is executing a send on the
\* ingestion stream at any time: the stdout reader and the stderr reader are
\* never both inside stream.Send.
C40_OneSenderAtATime ==
    Cardinality({fd \in Fds : inSend[fd] # <<>>}) <= 1

\* C38: for every level in {STDOUT, STDERR} and every content, the empty
\* string and a content that begins with a bracketed tag included, decoding
\* the line text the Ingestor stores ("[LEVEL] content") yields the same
\* level and the same content.
C38_LineTextRoundTrip ==
    marshalled # <<>> =>
        /\ marshalled[1].level = marshalArgs.level
        /\ marshalled[1].content = marshalArgs.content

\* The same for a content that is not empty.
LineTextRoundTripNonEmpty ==
    (marshalled # <<>> /\ marshalArgs.content # "") =>
        /\ marshalled[1].level = marshalArgs.level
        /\ marshalled[1].content = marshalArgs.content

====
